---------------------------- MODULE Spec2Model ----------------------------
(***************************************************************************)
(* Model of the trill agent-orchestration core:                            *)
(*   internal/service/service.go  (the conversation state machine),        *)
(*   internal/store/memory.go     (the in-memory conversation store).      *)
(*                                                                         *)
(* Strings are TLA+ strings; the Go string functions the service uses      *)
(* (TrimSpace, ToUpper, HasPrefix, Split, ...) are operators over them, so *)
(* that reply parsing is computed the way the code computes it.            *)
(***************************************************************************)
EXTENDS Integers, Sequences, FiniteSets, TLC

(***************************************************************************)
(* Bounds of the model.                                                    *)
(***************************************************************************)
\* successful or failed model-driver invocations explored before the driver
\* only fails (the test doubles' "no more replies")
MaxCalls == 4
\* shell commands run by approve_command
MaxCmds == 1
\* sessions the driver opens
MaxConvs == 1
\* thread ids the driver reports for sessions it was asked to resume
MaxForks == 1
\* the capacity of a subscriber's channel (make(chan Event, 64), scaled)
QueueCap == 2
\* Publish calls
MaxPubs == 3
\* lines of a plan reply
MaxLines == 12

(***************************************************************************)
(* Go string helpers (package strings).                                    *)
(***************************************************************************)
CharAt(s, i) == SubSeq(s, i, i)

LowerAlphabet == "abcdefghijklmnopqrstuvwxyz"
UpperAlphabet == "ABCDEFGHIJKLMNOPQRSTUVWXYZ"

\* unicode.ToUpper on the ASCII letters
UpperTable == [k \in 1..26 |-> <<CharAt(LowerAlphabet, k), CharAt(UpperAlphabet, k)>>]

LowerLetters == {UpperTable[k][1] : k \in 1..26}

UpperChar(c) ==
    IF c \in LowerLetters
    THEN UpperTable[CHOOSE k \in 1..26 : UpperTable[k][1] = c][2]
    ELSE c

RECURSIVE ToUpper(_)
ToUpper(s) ==
    IF Len(s) = 0 THEN ""
    ELSE UpperChar(CharAt(s, 1)) \o ToUpper(SubSeq(s, 2, Len(s)))

IsSpace(c) == c \in {" ", "\n", "\t", "\r"}

RECURSIVE TrimLeft(_)
TrimLeft(s) ==
    IF Len(s) > 0 /\ IsSpace(CharAt(s, 1)) THEN TrimLeft(SubSeq(s, 2, Len(s))) ELSE s

RECURSIVE TrimRight(_)
TrimRight(s) ==
    IF Len(s) > 0 /\ IsSpace(CharAt(s, Len(s))) THEN TrimRight(SubSeq(s, 1, Len(s) - 1)) ELSE s

TrimSpace(s) == TrimRight(TrimLeft(s))

HasPrefix(s, p) == Len(s) >= Len(p) /\ SubSeq(s, 1, Len(p)) = p

\* s[n:]
SliceFrom(s, n) == SubSeq(s, n + 1, Len(s))

TrimPrefix(s, p) == IF HasPrefix(s, p) THEN SliceFrom(s, Len(p)) ELSE s

\* strings.Index for a one-character separator; 0 when absent (1-based otherwise)
IndexOf(s, c) ==
    IF \E k \in 1..Len(s) : CharAt(s, k) = c
    THEN CHOOSE k \in 1..Len(s) : CharAt(s, k) = c /\ \A j \in 1..(k - 1) : CharAt(s, j) # c
    ELSE 0

Contains(s, c) == IndexOf(s, c) # 0

\* strings.Split(s, sep) for a one-character separator
RECURSIVE Split(_, _)
Split(s, c) ==
    IF IndexOf(s, c) = 0 THEN <<s>>
    ELSE <<SubSeq(s, 1, IndexOf(s, c) - 1)>> \o Split(SliceFrom(s, IndexOf(s, c)), c)

\* strings.SplitN(s, sep, 2)
SplitN2(s, c) ==
    IF IndexOf(s, c) = 0 THEN <<s>>
    ELSE <<SubSeq(s, 1, IndexOf(s, c) - 1), SliceFrom(s, IndexOf(s, c))>>

\* fmt.Sprintf("%d", n) for the step numbers a plan can hold
Decimal(n) == <<"1", "2", "3", "4", "5", "6", "7", "8", "9", "10", "11", "12", "13">>[n]


(***************************************************************************)
(* Data model (internal/types).  Times are clock readings; 0 is the zero   *)
(* time.Time.                                                              *)
(***************************************************************************)
StateAwaitingPlanApproval == "awaiting_plan_approval"
StateExecuting == "executing"
StateAwaitingStepApproval == "awaiting_step_approval"
StateAwaitingCommand == "awaiting_command"
StateAwaitingInfo == "awaiting_info"
StateReplanning == "replanning"
StateVerifying == "verifying"
StateBlocked == "blocked"
StateCompleted == "completed"
StateAborted == "aborted"

StepPending == "pending"
StepInProgress == "in_progress"
StepDone == "done"
StepBlocked == "blocked"
StepFailed == "failed"

\* a parsed plan step that asks for manual approval
NewStep_NeedsApproval(n, text) ==
    [ID |-> "step-" \o Decimal(n), Title |-> text, Status |-> StepPending,
     RequiresApproval |-> TRUE, PendingCommand |-> "", PendingInfo |-> "",
     PendingDependency |-> "", Logs |-> <<>>, StartedAt |-> 0, CompletedAt |-> 0]

\* a freshly parsed plan step (parsePlanAndCriteria's types.Step literal)
NewStep(n, text) ==
    [ID |-> "step-" \o Decimal(n), Title |-> text, Status |-> StepPending,
     RequiresApproval |-> FALSE, PendingCommand |-> "", PendingInfo |-> "",
     PendingDependency |-> "", Logs |-> <<>>, StartedAt |-> 0, CompletedAt |-> 0]

\* the zero value of types.Conversation
ZeroConv ==
    [SessionID |-> "", Prompt |-> "", State |-> "", PlanVersion |-> 0, PlanText |-> "",
     AcceptanceCriteria |-> <<>>, AwaitingReason |-> "", Steps |-> <<>>, Messages |-> <<>>,
     ModelCalls |-> <<>>, Artifacts |-> <<>>, CompletedMessage |-> "", CompletedAt |-> 0]

\* a types.ModelCall; the prompt is kept as its template and the step it names
ModelCall(kind, stepID, reply, sid, now) ==
    [Prompt |-> [kind |-> kind, step |-> stepID], Reply |-> reply, SessionID |-> sid,
     Timestamp |-> now]

(***************************************************************************)
(* parsePlanAndCriteria: i is the 0-based index of the raw line.           *)
(***************************************************************************)
RECURSIVE ParseLines(_, _, _, _, _)
ParseLines(lines, i, steps, acceptance, inAcceptance) ==
    IF i >= Len(lines) THEN [steps |-> steps, acceptance |-> acceptance]
    ELSE
      LET text == TrimSpace(lines[i + 1])
          upper == ToUpper(text)
      IN  IF text = "" THEN ParseLines(lines, i + 1, steps, acceptance, inAcceptance)
          ELSE IF HasPrefix(upper, "PLAN:")
            THEN ParseLines(lines, i + 1, steps, acceptance, FALSE)
          ELSE IF HasPrefix(upper, "ACCEPTANCE") \/ HasPrefix(upper, "ACCEPT:")
                  \/ HasPrefix(upper, "CRITERIA")
            THEN LET parts == SplitN2(text, ":")
                     item == IF Contains(text, ":") /\ Len(parts) = 2
                                  /\ TrimSpace(parts[2]) # ""
                             THEN <<TrimSpace(parts[2])>> ELSE <<>>
                 IN  ParseLines(lines, i + 1, steps, acceptance \o item, TRUE)
          ELSE IF inAcceptance
            THEN ParseLines(lines, i + 1, steps,
                            Append(acceptance, TrimPrefix(text, "- ")), inAcceptance)
          ELSE LET steps2 == Append(steps, NewStep(Len(steps) + 1, text))
               IN  IF i > 10 THEN [steps |-> steps2, acceptance |-> acceptance]
                   ELSE ParseLines(lines, i + 1, steps2, acceptance, inAcceptance)

parsePlanAndCriteria(plan) == ParseLines(Split(plan, "\n"), 0, <<>>, <<>>, FALSE)

(***************************************************************************)
(* The in-memory store (internal/store/memory.go).  A store value is a     *)
(* function from the stored session ids to conversation records.           *)
(***************************************************************************)
EmptyStore == [id \in {} |-> ZeroConv]

\* the copy the store keeps and hands out: the fields the struct literal names
cloneConversation(c) ==
    [ZeroConv EXCEPT !.SessionID = c.SessionID, !.Prompt = c.Prompt, !.State = c.State,
                     !.PlanVersion = c.PlanVersion, !.PlanText = c.PlanText,
                     !.AwaitingReason = c.AwaitingReason, !.Steps = c.Steps,
                     !.Messages = c.Messages, !.ModelCalls = c.ModelCalls]

SaveFails(c) == c.SessionID = ""

\* MemoryStore.Save
Save(st, c) ==
    IF SaveFails(c) THEN st
    ELSE [id \in DOMAIN st \cup {c.SessionID} |->
            IF id = c.SessionID THEN cloneConversation(c) ELSE st[id]]

Found(st, id) == id \in DOMAIN st

\* MemoryStore.Get, for a stored id
Get(st, id) == cloneConversation(st[id])

\* MemoryStore.ListIDs (as a set: the order is the map's)
ListIDs(st) == DOMAIN st

\* MemoryStore.Delete
Delete(st, id) == [k \in DOMAIN st \ {id} |-> st[k]]

(***************************************************************************)
(* State.                                                                  *)
(*   store   the MemoryStore's map                                         *)
(*   calls   model-driver invocations made so far                          *)
(*   ran     the command lines handed to the shell, in order               *)
(*   nsess   sessions the driver has opened                                *)
(*   clock   the wall clock (s.clock / time.Now), read by the steps        *)
(* and, per request thread t:                                              *)
(*   pc      where the running orchestrator call stands ("idle": none)     *)
(*   conv    the call's local *types.Conversation                          *)
(*   arg     the call's parameters and locals                              *)
(*   ret     what the thread's last call returned                          *)
(* A call is cut into atomic steps at the store's operations: each step    *)
(* holds at most one Save, Get or Delete (the store's mutex makes each of  *)
(* them atomic) together with the model or shell calls and the local       *)
(* computation that precede it.                                            *)
(*   forking whether the driver may answer a resumed session with a new    *)
(*           thread id (codex decides the thread_id it reports)            *)
(* The store on the heap (the slices' backing arrays made explicit):       *)
(*   heap    the backing arrays allocated so far                           *)
(*   convs   MemoryStore.convs, slices held as references into heap        *)
(*   held    the *types.Conversation a caller of the store holds           *)
(*   sret    what the caller's last store operation returned               *)
(* The event broker (obs.Broker):                                          *)
(*   subs    Broker.subs, the subscribed channels                          *)
(*   chan    every channel made: its buffer and whether it is closed       *)
(*   pub     per publisher thread: where its Publish stands, the event     *)
(*           and the channels its range loop has still to visit            *)
(*   npub    per publisher thread: the Publish calls it has started        *)
(*   got     per channel and publisher: the number of the publisher's last *)
(*           event the channel's reader has received (0: none)             *)
(*   panicked a send on a closed channel or a second close happened        *)
(* The plan parser (parsePlanAndCriteria):                                 *)
(*   planReply  the plan reply handed to the parser                        *)
(*   planParsed the steps and the acceptance criteria it returned          *)
(***************************************************************************)
VARIABLES store, calls, ran, nsess, clock, pc, conv, arg, ret, forking,
          heap, convs, held, sret,
          subs, chan, pub, npub, got, panicked,
          planReply, planParsed

svars == <<store, calls, ran, nsess, clock, pc, conv, arg, ret, forking>>
hvars == <<heap, convs, held, sret>>
bvars == <<subs, chan, pub, npub, got, panicked>>
pvars == <<planReply, planParsed>>

vars == <<svars, hvars, bvars, pvars>>

Threads == {1, 2}

SessionIds == <<"s1", "s2", "s3", "s4", "s5">>

\* inputs of the orchestrator's operations
Prompts == {"ship it", "  "}
Messages == {"hello", " "}
StepIDs == {"step-1", "step-2", "step-3"}
UnknownID == "nope"

\* replies of the model driver, one per class of reply the service tells apart
PlanReplies == {"1) a\n2) b", "PLAN:\n1) a\nACCEPT: c"}
ExecReplies == {"COMMAND: ls", "command:", "NEED: os", "NEED:", "DEPENDENCY: go",
                "BLOCKED: creds", " error", "SUCCESS: done"}
DiscoveryReplies == {"COMMAND: id", " COMMAND: id", "command:", "NEED: sudo"}
VerifyReplies == {"PASS: ok", " success", "FAIL: gap"}
ChatReplies == {"pong"}

DriverError == "driver failed"
ShellError == "exit status 1"

\* codex.Client.Send: the outcomes of the n-th invocation (n made so far) for a
\* session.  A failed call returns the session id it was given; a successful
\* one returns the thread id codex reports: a new one when no session was
\* given, the session's own when codex resumes it and (forking) a new one
\* when it does not.
\* `opened` is the number of thread ids codex has handed out before the call.
DriverAt(sessionID, replies, n, opened) ==
    {[err |-> DriverError, reply |-> "", sid |-> sessionID]} \cup
    (IF n < MaxCalls
     THEN {[err |-> "", reply |-> r,
            sid |-> IF sessionID = "" THEN SessionIds[opened + 1] ELSE sessionID] :
           r \in replies}
     ELSE {}) \cup
    (IF n < MaxCalls /\ forking /\ sessionID # "" /\ opened < MaxConvs + MaxForks
     THEN {[err |-> "", reply |-> r, sid |-> SessionIds[opened + 1]] : r \in replies}
     ELSE {})

Driver(sessionID, replies, n) == DriverAt(sessionID, replies, n, nsess)

\* the thread ids a call's outcome adds to those handed out
Opened(sessionID, o) == IF o.err = "" /\ o.sid # sessionID THEN 1 ELSE 0

\* exec.CommandContext(...).CombinedOutput()
Shell == {[err |-> "", output |-> "out"], [err |-> ShellError, output |-> "boom"]}

NoArg == [op |-> "", id |-> "", step |-> "", msg |-> "", target |-> 0, i |-> 0,
          reason |-> "", title |-> ""]

NoCall == [Prompt |-> [kind |-> "", step |-> ""], Reply |-> "", SessionID |-> "",
           Timestamp |-> 0]

\* a return value: err is "" for a nil error, conv is ZeroConv for a nil
\* conversation, call is NoCall for a nil call
Result(op, id, err, c, call) == [op |-> op, id |-> id, err |-> err, conv |-> c, call |-> call]

NoResult == Result("", "", "", ZeroConv, NoCall)

(***************************************************************************)
(* The store with the slices' backing arrays made explicit.  A slice is a  *)
(* header: the address of its backing array in the heap (0 for nil) and    *)
(* its length; the array's length is the slice's capacity.  A conversation *)
(* on the heap has slice headers as Steps, Messages and ModelCalls, and    *)
(* its steps have one as Logs.  The slices cloneConversation never copies  *)
(* (it leaves them nil) are kept as the sequences they hold.               *)
(***************************************************************************)
NilSlice == [a |-> 0, n |-> 0]

Slice(a, n) == [a |-> a, n |-> n]

\* the elements a slice shows
Elems(h, s) == IF s.a = 0 THEN <<>> ELSE SubSeq(h[s.a], 1, s.n)

\* cap(s)
Cap(h, s) == IF s.a = 0 THEN 0 ELSE Len(h[s.a])

\* the conversation a heap conversation stands for
StepValue(h, s) == [s EXCEPT !.Logs = Elems(h, s.Logs)]

Value(h, c) ==
    [c EXCEPT !.Steps = [i \in 1..c.Steps.n |-> StepValue(h, h[c.Steps.a][i])],
              !.Messages = Elems(h, c.Messages),
              !.ModelCalls = Elems(h, c.ModelCalls)]

\* no conversation held, nothing returned yet
NoHeld == [ZeroConv EXCEPT !.Steps = NilSlice, !.Messages = NilSlice,
                           !.ModelCalls = NilSlice]

StoreResult(op, id, err, origin) == [op |-> op, id |-> id, err |-> err, origin |-> origin]

HeapInit ==
    /\ heap = <<>>
    /\ convs = [id \in {} |-> NoHeld]
    /\ held = NoHeld
    /\ sret = StoreResult("", "", "", "")

(***************************************************************************)
(* The event broker (package obs).                                         *)
(***************************************************************************)
\* the threads that call Publish
Publishers == {1, 2}

\* the channels of the two subscribers, in the order Subscribe makes them
Channels == {1, 2}

NoEvent == [pub |-> 0, n |-> 0]

\* the n-th event publisher p publishes
Event(p, n) == [pub |-> p, n |-> n]

BrokerInit ==
    /\ subs = {}
    /\ chan = [ch \in {} |-> [buf |-> <<>>, closed |-> FALSE]]
    /\ pub = [p \in Publishers |-> [pc |-> "idle", ev |-> NoEvent, todo |-> {}]]
    /\ npub = [p \in Publishers |-> 0]
    /\ got = [ch \in {} |-> [p \in Publishers |-> 0]]
    /\ panicked = FALSE

\* service.New with an empty store, before any call
ServiceInit ==
    /\ store = EmptyStore
    /\ calls = 0
    /\ ran = <<>>
    /\ nsess = 0
    /\ clock = 1
    /\ pc = [t \in Threads |-> "idle"]
    /\ conv = [t \in Threads |-> ZeroConv]
    /\ arg = [t \in Threads |-> NoArg]
    /\ ret = [t \in Threads |-> NoResult]

\* no plan parsed yet
ParseInit ==
    /\ planReply = ""
    /\ planParsed = [steps |-> <<>>, acceptance |-> <<>>]

Init ==
    /\ ServiceInit
    /\ forking = FALSE
    /\ HeapInit
    /\ BrokerInit
    /\ ParseInit

\* the same, with a codex that may start a new thread when asked to resume
InitFork ==
    /\ ServiceInit
    /\ forking = TRUE
    /\ HeapInit
    /\ BrokerInit
    /\ ParseInit

\* the call of thread t returns
Return(t, err, c, call) ==
    /\ pc' = [pc EXCEPT ![t] = "idle"]
    /\ conv' = [conv EXCEPT ![t] = ZeroConv]
    /\ arg' = [arg EXCEPT ![t] = NoArg]
    /\ ret' = [ret EXCEPT ![t] = Result(arg[t].op, arg[t].id, err, c, call)]
    /\ UNCHANGED <<forking, hvars, bvars, pvars>>

\* a call that returns in the step that starts it
ReturnAtOnce(t, op, id, err, c, call) ==
    /\ pc' = pc
    /\ conv' = conv
    /\ arg' = arg
    /\ ret' = [ret EXCEPT ![t] = Result(op, id, err, c, call)]
    /\ UNCHANGED <<forking, hvars, bvars, pvars>>

\* the call of thread t goes on at `next`
Goto(t, next, c, a) ==
    /\ pc' = [pc EXCEPT ![t] = next]
    /\ conv' = [conv EXCEPT ![t] = c]
    /\ arg' = [arg EXCEPT ![t] = a]
    /\ ret' = [ret EXCEPT ![t] = NoResult]
    /\ UNCHANGED <<forking, hvars, bvars, pvars>>

(***************************************************************************)
(* The service's functions, as functions of the conversation, the driver's *)
(* outcome and the clock reading.                                          *)
(***************************************************************************)
\* CreateConversation's literal with the plan taken as approved
newConversation_Executing(prompt, o, now) ==
    LET parsed == parsePlanAndCriteria(o.reply)
    IN  [ZeroConv EXCEPT !.SessionID = o.sid, !.Prompt = prompt,
                         !.State = StateExecuting, !.PlanVersion = 1,
                         !.PlanText = o.reply, !.AcceptanceCriteria = parsed.acceptance,
                         !.AwaitingReason = "Awaiting plan approval",
                         !.Steps = parsed.steps,
                         !.ModelCalls = <<ModelCall("plan", "", o.reply, o.sid, now)>>]

\* CreateConversation's types.Conversation literal
newConversation(prompt, o, now) ==
    LET parsed == parsePlanAndCriteria(o.reply)
    IN  [ZeroConv EXCEPT !.SessionID = o.sid, !.Prompt = prompt,
                         !.State = StateAwaitingPlanApproval, !.PlanVersion = 1,
                         !.PlanText = o.reply, !.AcceptanceCriteria = parsed.acceptance,
                         !.AwaitingReason = "Awaiting plan approval",
                         !.Steps = parsed.steps,
                         !.ModelCalls = <<ModelCall("plan", "", o.reply, o.sid, now)>>]

\* entering executing without clearing the reason
startExecuting_KeepsReason(c) == [c EXCEPT !.State = StateExecuting]

\* ApprovePlan, Resume, PlanAndExecute: conv.State = executing, reason cleared
startExecuting(c) == [c EXCEPT !.State = StateExecuting, !.AwaitingReason = ""]

\* Resume's state test letting a plan that awaits approval through
Resumable_AlsoUnapproved(state) ==
    state \in {StateBlocked, StateAwaitingInfo, StateAwaitingStepApproval,
               StateAwaitingCommand, StateReplanning, StateAwaitingPlanApproval}

Resumable(state) ==
    state \in {StateBlocked, StateAwaitingInfo, StateAwaitingStepApproval,
               StateAwaitingCommand, StateReplanning}

\* proposeDiscoveryCommand: the command proposed ("" for none) and the call made
proposeDiscoveryCommand(od, now) ==
    LET call == ModelCall("propose_command", "", od.reply, od.sid, now)
        upper == ToUpper(TrimSpace(od.reply))
    IN  IF od.err # "" THEN [cmd |-> "", call |-> call]
        ELSE IF ~HasPrefix(upper, "COMMAND:") THEN [cmd |-> "", call |-> call]
        ELSE [cmd |-> TrimSpace(SliceFrom(od.reply, Len("COMMAND:"))), call |-> call]

\* whether advanceExecution makes the auxiliary propose_command call for a reply
NeedsDiscovery(reply) ==
    LET upper == ToUpper(TrimSpace(reply))
    IN  ~HasPrefix(upper, "COMMAND:")
        /\ (HasPrefix(upper, "NEED:") \/ HasPrefix(upper, "DEPENDENCY:"))

\* the discovery branches recording the propose_command call only when it
\* yields a command
discoveryBranch_RecordsOnSuccess(c1, i, payload, kind, od, now) ==
    LET d == proposeDiscoveryCommand(od, now)
    IN  IF d.cmd # ""
        THEN [c1 EXCEPT !.ModelCalls = Append(@, d.call),
                        !.Steps[i].PendingCommand = d.cmd,
                        !.Steps[i].Status = StepBlocked,
                        !.State = StateAwaitingCommand,
                        !.AwaitingReason =
                            IF kind = "info"
                            THEN "Awaiting approval to gather info: " \o payload
                            ELSE "Awaiting approval to satisfy dependency: " \o payload]
        ELSE IF kind = "info"
        THEN [c1 EXCEPT !.Steps[i].PendingInfo = payload,
                        !.Steps[i].Status = StepBlocked,
                        !.State = StateAwaitingInfo,
                        !.AwaitingReason = "Needs info: " \o payload]
        ELSE [c1 EXCEPT !.Steps[i].PendingDependency = payload,
                        !.Steps[i].Status = StepBlocked,
                        !.State = StateAwaitingInfo,
                        !.AwaitingReason = "Dependency required: " \o payload]

\* the NEED: and DEPENDENCY: branches of advanceExecution, after the discovery call
discoveryBranch(c1, i, payload, kind, od, now) ==
    LET d == proposeDiscoveryCommand(od, now)
        c2 == [c1 EXCEPT !.ModelCalls = Append(@, d.call)]
    IN  IF d.cmd # ""
        THEN [c2 EXCEPT !.Steps[i].PendingCommand = d.cmd,
                        !.Steps[i].Status = StepBlocked,
                        !.State = StateAwaitingCommand,
                        !.AwaitingReason =
                            IF kind = "info"
                            THEN "Awaiting approval to gather info: " \o payload
                            ELSE "Awaiting approval to satisfy dependency: " \o payload]
        ELSE IF kind = "info"
        THEN [c2 EXCEPT !.Steps[i].PendingInfo = payload,
                        !.Steps[i].Status = StepBlocked,
                        !.State = StateAwaitingInfo,
                        !.AwaitingReason = "Needs info: " \o payload]
        ELSE [c2 EXCEPT !.Steps[i].PendingDependency = payload,
                        !.Steps[i].Status = StepBlocked,
                        !.State = StateAwaitingInfo,
                        !.AwaitingReason = "Dependency required: " \o payload]

\* advanceExecution's loop body testing the reply's prefixes as written
executeStep_CaseSensitive(c, i, o, od, now) ==
    LET c1 == [c EXCEPT !.SessionID = o.sid,
                        !.ModelCalls = Append(@, ModelCall("execute_step", c.Steps[i].ID,
                                                           o.reply, o.sid, now)),
                        !.Steps[i].Status = StepInProgress,
                        !.Steps[i].StartedAt = now,
                        !.Steps[i].Logs = Append(@, o.reply),
                        !.Steps[i].CompletedAt = now]
        upper == TrimSpace(o.reply)
    IN  IF HasPrefix(upper, "COMMAND:")
        THEN LET cmdText == TrimSpace(SliceFrom(o.reply, Len("COMMAND:")))
             IN  [conv |-> [c1 EXCEPT !.Steps[i].PendingCommand = cmdText,
                                      !.Steps[i].Status = StepBlocked,
                                      !.State = StateAwaitingCommand,
                                      !.AwaitingReason = "Awaiting approval to run: " \o cmdText],
                  next |-> "idle"]
        ELSE IF HasPrefix(upper, "NEED:")
        THEN [conv |-> discoveryBranch(c1, i, TrimSpace(SliceFrom(o.reply, Len("NEED:"))),
                                       "info", od, now),
              next |-> "idle"]
        ELSE IF HasPrefix(upper, "DEPENDENCY:")
        THEN [conv |-> discoveryBranch(c1, i,
                                       TrimSpace(SliceFrom(o.reply, Len("DEPENDENCY:"))),
                                       "dependency", od, now),
              next |-> "idle"]
        ELSE IF o.err # "" \/ HasPrefix(upper, "BLOCKED") \/ HasPrefix(upper, "ERROR")
        THEN [conv |-> [c1 EXCEPT !.Steps[i].Status = StepBlocked,
                                  !.State = StateReplanning,
                                  !.AwaitingReason =
                                      IF o.err # "" THEN "Execution blocked: " \o o.err
                                      ELSE "Execution blocked: " \o o.reply],
              next |-> "resolve"]
        ELSE [conv |-> [c1 EXCEPT !.Steps[i].Status = StepDone,
                                  !.State = StateExecuting,
                                  !.AwaitingReason = ""],
              next |-> "adv"]

\* advanceExecution's loop body leaving a step that succeeded in progress
executeStep_SuccessNotDone(c, i, o, od, now) ==
    LET c1 == [c EXCEPT !.SessionID = o.sid,
                        !.ModelCalls = Append(@, ModelCall("execute_step", c.Steps[i].ID,
                                                           o.reply, o.sid, now)),
                        !.Steps[i].Status = StepInProgress,
                        !.Steps[i].StartedAt = now,
                        !.Steps[i].Logs = Append(@, o.reply),
                        !.Steps[i].CompletedAt = now]
        upper == ToUpper(TrimSpace(o.reply))
    IN  IF HasPrefix(upper, "COMMAND:")
        THEN LET cmdText == TrimSpace(SliceFrom(o.reply, Len("COMMAND:")))
             IN  [conv |-> [c1 EXCEPT !.Steps[i].PendingCommand = cmdText,
                                      !.Steps[i].Status = StepBlocked,
                                      !.State = StateAwaitingCommand,
                                      !.AwaitingReason = "Awaiting approval to run: " \o cmdText],
                  next |-> "idle"]
        ELSE IF HasPrefix(upper, "NEED:")
        THEN [conv |-> discoveryBranch(c1, i, TrimSpace(SliceFrom(o.reply, Len("NEED:"))),
                                       "info", od, now),
              next |-> "idle"]
        ELSE IF HasPrefix(upper, "DEPENDENCY:")
        THEN [conv |-> discoveryBranch(c1, i,
                                       TrimSpace(SliceFrom(o.reply, Len("DEPENDENCY:"))),
                                       "dependency", od, now),
              next |-> "idle"]
        ELSE IF o.err # "" \/ HasPrefix(upper, "BLOCKED") \/ HasPrefix(upper, "ERROR")
        THEN [conv |-> [c1 EXCEPT !.Steps[i].Status = StepBlocked,
                                  !.State = StateReplanning,
                                  !.AwaitingReason =
                                      IF o.err # "" THEN "Execution blocked: " \o o.err
                                      ELSE "Execution blocked: " \o o.reply],
              next |-> "resolve"]
        ELSE [conv |-> [c1 EXCEPT !.State = StateExecuting,
                                  !.AwaitingReason = ""],
              next |-> "adv"]

\* one iteration of advanceExecution's loop on step i, which is not done and
\* needs no approval: the conversation to save and where the loop goes next
\* ("adv": next iteration, "idle": return conv, "resolve": resolveBlock)
executeStep(c, i, o, od, now) ==
    LET c1 == [c EXCEPT !.SessionID = o.sid,
                        !.ModelCalls = Append(@, ModelCall("execute_step", c.Steps[i].ID,
                                                           o.reply, o.sid, now)),
                        !.Steps[i].Status = StepInProgress,
                        !.Steps[i].StartedAt = now,
                        !.Steps[i].Logs = Append(@, o.reply),
                        !.Steps[i].CompletedAt = now]
        upper == ToUpper(TrimSpace(o.reply))
    IN  IF HasPrefix(upper, "COMMAND:")
        THEN LET cmdText == TrimSpace(SliceFrom(o.reply, Len("COMMAND:")))
             IN  [conv |-> [c1 EXCEPT !.Steps[i].PendingCommand = cmdText,
                                      !.Steps[i].Status = StepBlocked,
                                      !.State = StateAwaitingCommand,
                                      !.AwaitingReason = "Awaiting approval to run: " \o cmdText],
                  next |-> "idle"]
        ELSE IF HasPrefix(upper, "NEED:")
        THEN [conv |-> discoveryBranch(c1, i, TrimSpace(SliceFrom(o.reply, Len("NEED:"))),
                                       "info", od, now),
              next |-> "idle"]
        ELSE IF HasPrefix(upper, "DEPENDENCY:")
        THEN [conv |-> discoveryBranch(c1, i,
                                       TrimSpace(SliceFrom(o.reply, Len("DEPENDENCY:"))),
                                       "dependency", od, now),
              next |-> "idle"]
        ELSE IF o.err # "" \/ HasPrefix(upper, "BLOCKED") \/ HasPrefix(upper, "ERROR")
        THEN [conv |-> [c1 EXCEPT !.Steps[i].Status = StepBlocked,
                                  !.State = StateReplanning,
                                  !.AwaitingReason =
                                      IF o.err # "" THEN "Execution blocked: " \o o.err
                                      ELSE "Execution blocked: " \o o.reply],
              next |-> "resolve"]
        ELSE [conv |-> [c1 EXCEPT !.Steps[i].Status = StepDone,
                                  !.State = StateExecuting,
                                  !.AwaitingReason = ""],
              next |-> "adv"]

\* completeConversation, before its Save
completeConversation(c, now) ==
    LET lastReply == IF Len(c.ModelCalls) > 0 THEN c.ModelCalls[Len(c.ModelCalls)].Reply
                     ELSE ""
        lastLogs == IF Len(c.Steps) > 0 THEN c.Steps[Len(c.Steps)].Logs ELSE <<>>
        finalReply == IF lastReply = "" /\ Len(lastLogs) > 0 THEN lastLogs[Len(lastLogs)]
                      ELSE lastReply
    IN  [c EXCEPT !.State = StateCompleted, !.AwaitingReason = "",
                  !.CompletedMessage =
                      IF finalReply # ""
                      THEN "Plan completed successfully." \o " Last response: " \o finalReply
                      ELSE "Plan completed successfully.",
                  !.CompletedAt = now]

\* verifyAcceptance after its model call: the conversation to save and what follows
verifyAcceptance(c, o, now) ==
    LET c1 == [c EXCEPT !.SessionID = o.sid,
                        !.ModelCalls = Append(@, ModelCall("verify", "", o.reply, o.sid, now))]
        upper == ToUpper(TrimSpace(o.reply))
    IN  IF o.err # ""
        THEN [conv |-> [c EXCEPT !.State = StateBlocked,
                                 !.AwaitingReason = "Verification failed: " \o o.err],
              next |-> "error"]
        ELSE IF HasPrefix(upper, "PASS") \/ HasPrefix(upper, "SUCCESS")
        THEN [conv |-> [c1 EXCEPT !.CompletedMessage = "Acceptance criteria satisfied. " \o o.reply,
                                  !.CompletedAt = now,
                                  !.State = StateCompleted,
                                  !.AwaitingReason = ""],
              next |-> "idle"]
        ELSE [conv |-> [c1 EXCEPT !.State = StateReplanning,
                                  !.AwaitingReason = "Verification failed: " \o o.reply],
              next |-> "resolve"]

\* resolveBlock after a successful unblock model call, before its Save
resolveBlock(c, o, now) ==
    LET parsed == parsePlanAndCriteria(o.reply)
    IN  [c EXCEPT !.SessionID = o.sid, !.PlanText = o.reply, !.Steps = parsed.steps,
                  !.AcceptanceCriteria = parsed.acceptance,
                  !.PlanVersion = @ + 1,
                  !.State = StateAwaitingPlanApproval,
                  !.AwaitingReason = "Awaiting plan approval after block",
                  !.ModelCalls = Append(@, ModelCall("unblock", "", o.reply, o.sid, now))]

\* ApproveCommand's search for the step: its index, 0 when there is none
findStep(c, stepID) ==
    IF \E k \in 1..Len(c.Steps) : c.Steps[k].ID = stepID
    THEN CHOOSE k \in 1..Len(c.Steps) :
            c.Steps[k].ID = stepID /\ \A j \in 1..(k - 1) : c.Steps[j].ID # stepID
    ELSE 0

\* addArtifact's types.Artifact
newArtifact(pending, output, now) ==
    [ID |-> now, Title |-> "Command output", Description |-> "Output for " \o pending,
     Content |-> output, Source |-> pending, CreatedAt |-> now]

\* ApproveCommand treating a failed command as a block to replan
commandRan_FailureReplans(c, k, sh, now) ==
    LET pending == c.Steps[k].PendingCommand
        c1 == [c EXCEPT !.Steps[k].Logs = @ \o <<"EXEC: " \o pending, sh.output>>,
                        !.Steps[k].PendingCommand = "",
                        !.Artifacts = Append(@, newArtifact(pending, sh.output, now))]
    IN  IF sh.err # ""
        THEN [c1 EXCEPT !.Steps[k].Status = StepBlocked,
                        !.State = StateReplanning,
                        !.AwaitingReason = "Command failed: " \o sh.err]
        ELSE [c1 EXCEPT !.Steps[k].Status = StepDone,
                        !.Steps[k].CompletedAt = now,
                        !.State = StateExecuting,
                        !.AwaitingReason = ""]

\* ApproveCommand logging the command's output before its EXEC entry
commandRan_OutputFirst(c, k, sh, now) ==
    LET pending == c.Steps[k].PendingCommand
        c1 == [c EXCEPT !.Steps[k].Logs = @ \o <<sh.output, "EXEC: " \o pending>>,
                        !.Steps[k].PendingCommand = "",
                        !.Artifacts = Append(@, newArtifact(pending, sh.output, now))]
    IN  IF sh.err # ""
        THEN [c1 EXCEPT !.Steps[k].Status = StepBlocked,
                        !.State = StateBlocked,
                        !.AwaitingReason = "Command failed: " \o sh.err]
        ELSE [c1 EXCEPT !.Steps[k].Status = StepDone,
                        !.Steps[k].CompletedAt = now,
                        !.State = StateExecuting,
                        !.AwaitingReason = ""]

\* ApproveCommand after the shell has run the pending command of step k
commandRan(c, k, sh, now) ==
    LET pending == c.Steps[k].PendingCommand
        c1 == [c EXCEPT !.Steps[k].Logs = @ \o <<"EXEC: " \o pending, sh.output>>,
                        !.Steps[k].PendingCommand = "",
                        !.Artifacts = Append(@, newArtifact(pending, sh.output, now))]
    IN  IF sh.err # ""
        THEN [c1 EXCEPT !.Steps[k].Status = StepBlocked,
                        !.State = StateBlocked,
                        !.AwaitingReason = "Command failed: " \o sh.err]
        ELSE [c1 EXCEPT !.Steps[k].Status = StepDone,
                        !.Steps[k].CompletedAt = now,
                        !.State = StateExecuting,
                        !.AwaitingReason = ""]

\* Send recording the call but not the assistant's message
chatReplied_NoAssistant(c, msg, o, now) ==
    [c EXCEPT !.SessionID = o.sid,
              !.ModelCalls = Append(@, [Prompt |-> [kind |-> "chat", step |-> ""],
                                        Reply |-> o.reply, SessionID |-> o.sid,
                                        Timestamp |-> now])]

\* Send after its model call succeeded, before its Save
chatReplied(c, msg, o, now) ==
    [c EXCEPT !.SessionID = o.sid,
              !.Messages = Append(@, [Role |-> "assistant", Content |-> o.reply]),
              !.ModelCalls = Append(@, [Prompt |-> [kind |-> "chat", step |-> ""],
                                        Reply |-> o.reply, SessionID |-> o.sid,
                                        Timestamp |-> now])]

(***************************************************************************)
(* The orchestrator's operations, step by step.                            *)
(***************************************************************************)
SaveError == "conversation missing session id"
NotFoundError == "conversation not found"

Min(S) == CHOOSE x \in S : \A y \in S : x <= y

\* ListInbox: the item of one conversation, if it gets one
inboxItems(c) ==
    LET item == [SessionID |-> c.SessionID, State |-> c.State,
                 AwaitingReason |-> c.AwaitingReason, Prompt |-> c.Prompt,
                 CompletedMessage |-> c.CompletedMessage, CompletedAt |-> c.CompletedAt,
                 StepID |-> "", StepTitle |-> "", PendingCommand |-> "",
                 PendingInfo |-> "", PendingDependency |-> ""]
        withCommand == {k \in 1..Len(c.Steps) : c.Steps[k].PendingCommand # ""}
        withInfo == {k \in 1..Len(c.Steps) :
                        c.Steps[k].PendingInfo # "" \/ c.Steps[k].PendingDependency # ""}
    IN  IF c.State \in {StateAwaitingPlanApproval, StateAwaitingStepApproval, StateReplanning}
        THEN {item}
        ELSE IF c.State \in {StateAwaitingCommand, StateBlocked}
        THEN IF withCommand = {} THEN {}
             ELSE LET k == Min(withCommand)
                  IN  {[item EXCEPT !.StepID = c.Steps[k].ID, !.StepTitle = c.Steps[k].Title,
                                    !.PendingCommand = c.Steps[k].PendingCommand]}
        ELSE IF c.State = StateAwaitingInfo
        THEN IF withInfo = {} THEN {}
             ELSE LET k == Min(withInfo)
                  IN  {[item EXCEPT !.StepID = c.Steps[k].ID, !.StepTitle = c.Steps[k].Title,
                                    !.PendingInfo = c.Steps[k].PendingInfo,
                                    !.PendingDependency = c.Steps[k].PendingDependency]}
        ELSE IF c.State = StateCompleted /\ c.CompletedMessage # ""
        THEN {item}
        ELSE {}

\* ListInbox: the items it returns, in the order of the map's iteration (any);
\* each conversation adds at most one
ListInbox(st) == UNION {inboxItems(Get(st, id)) : id \in ListIDs(st)}

\* `if err := s.store.Save(ctx, conv); err != nil { return nil, err }` and what
\* follows it: the call returns (conv or the call made) or goes on at `next`
Commit(t, c, next, a, call) ==
    IF SaveFails(c)
    THEN store' = store /\ Return(t, SaveError, ZeroConv, NoCall)
    ELSE /\ store' = Save(store, c)
         /\ IF next = "idle"
            THEN Return(t, "", IF call = NoCall THEN c ELSE ZeroConv, call)
            ELSE Goto(t, next, c, a)

\* CreateConversation without its test for an empty prompt
CreateConversation_AnyPrompt(t, prompt, andExecute) ==
    LET op == IF andExecute THEN "PlanAndExecute" ELSE "CreateConversation"
        p == TrimSpace(prompt)
    IN
    /\ pc[t] = "idle"
    /\ calls < MaxCalls
    /\ nsess < MaxConvs
    /\ IF FALSE
       THEN /\ ReturnAtOnce(t, op, "", "prompt is required", ZeroConv, NoCall)
            /\ UNCHANGED <<store, calls, ran, nsess, clock>>
       ELSE \E o \in Driver("", PlanReplies, calls) :
            /\ calls' = calls + 1
            /\ ran' = ran
            /\ IF o.err # ""
               THEN /\ ReturnAtOnce(t, op, "", o.err, ZeroConv, NoCall)
                    /\ UNCHANGED <<store, nsess, clock>>
               ELSE LET c == newConversation(p, o, clock)
                    IN  /\ nsess' = nsess + 1
                        /\ clock' = clock + 1
                        /\ IF SaveFails(c)
                           THEN /\ store' = store
                                /\ ReturnAtOnce(t, op, "", SaveError, ZeroConv, NoCall)
                           ELSE /\ store' = Save(store, c)
                                /\ IF andExecute
                                   THEN Goto(t, "save_adv", startExecuting(c),
                                             [NoArg EXCEPT !.op = op, !.id = c.SessionID])
                                   ELSE ReturnAtOnce(t, op, "", "", c, NoCall)

\* CreateConversation (andExecute = FALSE), and PlanAndExecute up to its own
\* Save (andExecute = TRUE), which calls it
CreateConversation(t, prompt, andExecute) ==
    LET op == IF andExecute THEN "PlanAndExecute" ELSE "CreateConversation"
        p == TrimSpace(prompt)
    IN
    /\ pc[t] = "idle"
    /\ calls < MaxCalls
    /\ nsess < MaxConvs
    /\ IF p = ""
       THEN /\ ReturnAtOnce(t, op, "", "prompt is required", ZeroConv, NoCall)
            /\ UNCHANGED <<store, calls, ran, nsess, clock>>
       ELSE \E o \in Driver("", PlanReplies, calls) :
            /\ calls' = calls + 1
            /\ ran' = ran
            /\ IF o.err # ""
               THEN /\ ReturnAtOnce(t, op, "", o.err, ZeroConv, NoCall)
                    /\ UNCHANGED <<store, nsess, clock>>
               ELSE LET c == newConversation(p, o, clock)
                    IN  /\ nsess' = nsess + 1
                        /\ clock' = clock + 1
                        /\ IF SaveFails(c)
                           THEN /\ store' = store
                                /\ ReturnAtOnce(t, op, "", SaveError, ZeroConv, NoCall)
                           ELSE /\ store' = Save(store, c)
                                /\ IF andExecute
                                   THEN Goto(t, "save_adv", startExecuting(c),
                                             [NoArg EXCEPT !.op = op, !.id = c.SessionID])
                                   ELSE ReturnAtOnce(t, op, "", "", c, NoCall)

\* ApprovePlan without its state precondition
ApprovePlan_Unguarded(t, id) ==
    /\ pc[t] = "idle"
    /\ calls < MaxCalls
    /\ UNCHANGED <<store, calls, ran, nsess, clock>>
    /\ IF ~Found(store, id)
       THEN ReturnAtOnce(t, "ApprovePlan", id, NotFoundError, ZeroConv, NoCall)
       ELSE Goto(t, "save_adv", startExecuting(Get(store, id)),
                 [NoArg EXCEPT !.op = "ApprovePlan", !.id = id])

\* ApprovePlan up to its Save
ApprovePlan(t, id) ==
    /\ pc[t] = "idle"
    /\ calls < MaxCalls
    /\ UNCHANGED <<store, calls, ran, nsess, clock>>
    /\ IF ~Found(store, id)
       THEN ReturnAtOnce(t, "ApprovePlan", id, NotFoundError, ZeroConv, NoCall)
       ELSE LET c == Get(store, id)
            IN  IF c.State # StateAwaitingPlanApproval
                THEN ReturnAtOnce(t, "ApprovePlan", id,
                                  "conversation not awaiting plan approval", ZeroConv, NoCall)
                ELSE Goto(t, "save_adv", startExecuting(c),
                          [NoArg EXCEPT !.op = "ApprovePlan", !.id = id])

\* Resume without its test of the conversation's state
Resume_AnyState(t, id) ==
    /\ pc[t] = "idle"
    /\ calls < MaxCalls
    /\ UNCHANGED <<store, calls, ran, nsess, clock>>
    /\ IF ~Found(store, id)
       THEN ReturnAtOnce(t, "Resume", id, NotFoundError, ZeroConv, NoCall)
       ELSE Goto(t, "save_adv", startExecuting(Get(store, id)),
                 [NoArg EXCEPT !.op = "Resume", !.id = id])

\* Resume up to its Save
Resume(t, id) ==
    /\ pc[t] = "idle"
    /\ calls < MaxCalls
    /\ UNCHANGED <<store, calls, ran, nsess, clock>>
    /\ IF ~Found(store, id)
       THEN ReturnAtOnce(t, "Resume", id, NotFoundError, ZeroConv, NoCall)
       ELSE LET c == Get(store, id)
            IN  IF ~Resumable(c.State)
                THEN ReturnAtOnce(t, "Resume", id, "", c, NoCall)
                ELSE Goto(t, "save_adv", startExecuting(c),
                          [NoArg EXCEPT !.op = "Resume", !.id = id])

\* the Save of ApprovePlan, Resume and PlanAndExecute, then advanceExecution
SaveThenAdvance(t) ==
    /\ pc[t] = "save_adv"
    /\ UNCHANGED <<calls, ran, nsess, clock>>
    /\ Commit(t, conv[t], "adv", [arg[t] EXCEPT !.i = 1], NoCall)

\* advanceExecution: one iteration of its loop, from index arg.i on, or what
\* follows the loop (completeConversation, or the Save before verifyAcceptance)
Advance(t) ==
    LET c == conv[t]
        left == {k \in arg[t].i..Len(c.Steps) : c.Steps[k].Status # StepDone}
    IN
    /\ pc[t] = "adv"
    /\ ran' = ran
    /\ IF left = {}
       THEN /\ calls' = calls
            /\ nsess' = nsess
            /\ IF Len(c.AcceptanceCriteria) = 0
               THEN /\ clock' = clock + 1
                    /\ Commit(t, completeConversation(c, clock), "idle", arg[t], NoCall)
               ELSE /\ clock' = clock
                    /\ Commit(t, [c EXCEPT !.State = StateVerifying,
                                           !.AwaitingReason = "Verifying acceptance criteria"],
                              "verify", arg[t], NoCall)
       ELSE LET i == Min(left)
            IN  IF c.Steps[i].RequiresApproval
                THEN /\ UNCHANGED <<calls, nsess, clock>>
                     /\ Commit(t, [c EXCEPT !.State = StateAwaitingStepApproval,
                                            !.AwaitingReason =
                                                "Awaiting manual approval for step "
                                                    \o c.Steps[i].Title],
                               "idle", arg[t], NoCall)
                ELSE \E o \in Driver(c.SessionID, ExecReplies, calls) :
                     \E od \in IF NeedsDiscovery(o.reply)
                               THEN DriverAt(o.sid, DiscoveryReplies, calls + 1,
                                             nsess + Opened(c.SessionID, o))
                               ELSE {o} :
                        LET r == executeStep(c, i, o, od, clock)
                        IN  /\ calls' = calls + (IF NeedsDiscovery(o.reply) THEN 2 ELSE 1)
                            /\ nsess' = nsess + Opened(c.SessionID, o)
                                               + (IF NeedsDiscovery(o.reply)
                                                  THEN Opened(o.sid, od) ELSE 0)
                            /\ clock' = clock + 1
                            /\ Commit(t, r.conv, r.next,
                                      [arg[t] EXCEPT !.i = i + 1,
                                                     !.reason = r.conv.AwaitingReason,
                                                     !.title = c.Steps[i].Title],
                                      NoCall)

\* verifyAcceptance: its model call and the Save that follows
Verify(t) ==
    /\ pc[t] = "verify"
    /\ ran' = ran
    /\ \E o \in Driver(conv[t].SessionID, VerifyReplies, calls) :
          LET r == verifyAcceptance(conv[t], o, clock)
          IN  /\ calls' = calls + 1
              /\ nsess' = nsess + Opened(conv[t].SessionID, o)
              /\ IF r.next = "error"
                 THEN /\ clock' = clock
                      /\ store' = Save(store, r.conv)
                      /\ Return(t, o.err, ZeroConv, NoCall)
                 ELSE /\ clock' = clock + 1
                      /\ Commit(t, r.conv, r.next,
                                [arg[t] EXCEPT !.reason = o.reply,
                                               !.title = "acceptance verification"],
                                NoCall)

\* resolveBlock: the unblock model call and the Save that follows
ResolveBlock(t) ==
    /\ pc[t] = "resolve"
    /\ ran' = ran
    /\ \E o \in Driver(conv[t].SessionID, PlanReplies, calls) :
          /\ calls' = calls + 1
          /\ nsess' = nsess + Opened(conv[t].SessionID, o)
          /\ IF o.err # ""
             THEN /\ UNCHANGED <<store, clock>>
                  /\ Return(t, o.err, ZeroConv, NoCall)
             ELSE /\ clock' = clock + 1
                  /\ Commit(t, resolveBlock(conv[t], o, clock), "idle", arg[t], NoCall)

\* ApproveCommand without its pending_command precondition
ApproveCommand_AnyStep(t, id, stepID) ==
    /\ pc[t] = "idle"
    /\ Len(ran) < MaxCmds
    /\ UNCHANGED <<store, calls, ran, nsess, clock>>
    /\ IF ~Found(store, id)
       THEN ReturnAtOnce(t, "ApproveCommand", id, NotFoundError, ZeroConv, NoCall)
       ELSE LET c == Get(store, id)
                k == findStep(c, stepID)
            IN  IF k = 0
                THEN ReturnAtOnce(t, "ApproveCommand", id, "step not found", ZeroConv, NoCall)
                ELSE Goto(t, "exec", c,
                          [NoArg EXCEPT !.op = "ApproveCommand", !.id = id,
                                        !.step = stepID, !.target = k])

\* ApproveCommand up to the shell call
ApproveCommand(t, id, stepID) ==
    /\ pc[t] = "idle"
    /\ Len(ran) < MaxCmds
    /\ UNCHANGED <<store, calls, ran, nsess, clock>>
    /\ IF ~Found(store, id)
       THEN ReturnAtOnce(t, "ApproveCommand", id, NotFoundError, ZeroConv, NoCall)
       ELSE LET c == Get(store, id)
                k == findStep(c, stepID)
            IN  IF k = 0
                THEN ReturnAtOnce(t, "ApproveCommand", id, "step not found", ZeroConv, NoCall)
                ELSE IF c.Steps[k].PendingCommand = ""
                THEN ReturnAtOnce(t, "ApproveCommand", id, "no pending command", ZeroConv,
                                  NoCall)
                ELSE Goto(t, "exec", c,
                          [NoArg EXCEPT !.op = "ApproveCommand", !.id = id,
                                        !.step = stepID, !.target = k])

\* ApproveCommand: the shell call and the Save that follows
RunCommand(t) ==
    LET c == conv[t]
        k == arg[t].target
    IN
    /\ pc[t] = "exec"
    /\ calls' = calls
    /\ nsess' = nsess
    /\ clock' = clock + 1
    /\ ran' = Append(ran, c.Steps[k].PendingCommand)
    /\ \E sh \in Shell :
          LET c2 == commandRan(c, k, sh, clock)
          IN  IF sh.err # ""
              THEN /\ store' = Save(store, c2)
                   /\ Return(t, "", c2, NoCall)
              ELSE Commit(t, c2, "adv", [arg[t] EXCEPT !.i = 1], NoCall)

\* Send up to its model call
Send(t, id, msg) ==
    LET m == TrimSpace(msg)
    IN
    /\ pc[t] = "idle"
    /\ calls < MaxCalls
    /\ id = "" => nsess < MaxConvs
    /\ UNCHANGED <<store, calls, ran, nsess, clock>>
    /\ IF m = ""
       THEN ReturnAtOnce(t, "Send", id, "message is required", ZeroConv, NoCall)
       ELSE IF id # "" /\ ~Found(store, id)
       THEN ReturnAtOnce(t, "Send", id, NotFoundError, ZeroConv, NoCall)
       ELSE LET c == IF id # "" THEN Get(store, id) ELSE ZeroConv
            IN  Goto(t, "send_call",
                     [c EXCEPT !.Messages = Append(@, [Role |-> "user", Content |-> m])],
                     [NoArg EXCEPT !.op = "Send", !.id = id, !.msg = m])

\* Send: its model call and the Save that follows
SendCall(t) ==
    /\ pc[t] = "send_call"
    /\ ran' = ran
    /\ \E o \in Driver(conv[t].SessionID, ChatReplies, calls) :
          /\ calls' = calls + 1
          /\ nsess' = nsess + Opened(conv[t].SessionID, o)
          /\ IF o.err # ""
             THEN /\ UNCHANGED <<store, clock>>
                  /\ Return(t, o.err, ZeroConv, NoCall)
             ELSE LET c2 == chatReplied(conv[t], arg[t].msg, o, clock)
                  IN  /\ clock' = clock + 1
                      /\ Commit(t, c2, "idle", arg[t], c2.ModelCalls[Len(c2.ModelCalls)])

\* Close
Close(t, id) ==
    /\ pc[t] = "idle"
    /\ Found(store, id)
    /\ store' = Delete(store, id)
    /\ ReturnAtOnce(t, "Close", id, "", ZeroConv, NoCall)
    /\ UNCHANGED <<calls, ran, nsess, clock>>

\* the session ids a client names: the stored ones and one that is not stored
ClientIDs == ListIDs(store) \cup {UnknownID}

Step(t) ==
    \/ \E p \in Prompts : CreateConversation(t, p, FALSE)
    \/ \E p \in Prompts : CreateConversation(t, p, TRUE)
    \/ \E id \in ClientIDs : ApprovePlan(t, id)
    \/ \E id \in ClientIDs : Resume(t, id)
    \/ \E id \in ClientIDs, sid \in StepIDs : ApproveCommand(t, id, sid)
    \/ \E id \in ClientIDs \cup {""}, m \in Messages : Send(t, id, m)
    \/ \E id \in ClientIDs : Close(t, id)
    \/ SaveThenAdvance(t)
    \/ Advance(t)
    \/ Verify(t)
    \/ ResolveBlock(t)
    \/ RunCommand(t)
    \/ SendCall(t)

\* one client at a time: every call returns before the next one starts
Next == Step(1)

Spec == Init /\ [][Next]_vars

\* the steps of a call under way.  A handler is one Go function call: once
\* started it runs on to its return, while nothing makes a client start
\* another call.
Running(t) ==
    \/ SaveThenAdvance(t)
    \/ Advance(t)
    \/ Verify(t)
    \/ ResolveBlock(t)
    \/ RunCommand(t)
    \/ SendCall(t)

SpecFair == Spec /\ WF_vars(Running(1))

\* a second client on the same store: the service takes no per-conversation
\* lock, so its Send (Get, model call, Save) and Close interleave with the
\* steps of the first client's calls
Chat(t) ==
    \/ \E id \in ClientIDs, m \in Messages : Send(t, id, m)
    \/ \E id \in ClientIDs : Close(t, id)
    \/ SendCall(t)

NextConc == Step(1) \/ Chat(2)

SpecConc == Init /\ [][NextConc]_vars

\* one client, and a driver whose reported thread id may differ from the
\* session id it was given
SpecFork == InitFork /\ [][Next]_vars

(***************************************************************************)
(* The store's operations on the heap, and a caller of the store that      *)
(* builds conversations, saves them, gets them, deletes them and writes    *)
(* to the one it holds through its slices.                                 *)
(***************************************************************************)
\* make([]T, len(s)) followed by copy: the heap with the new array, which
\* lies at the address Len(h) + 1
Copied(h, s) == Append(h, Elems(h, s))

\* cloneConversation's loop over steps, from index i on: a step with logs
\* gets an array of its own, a step without keeps the header it has
RECURSIVE cloneLogs(_, _, _)
cloneLogs(h, steps, i) ==
    IF i > steps.n THEN h
    ELSE LET logs == h[steps.a][i].Logs
         IN  IF logs.n > 0
             THEN LET h1 == Copied(h, logs)
                  IN  cloneLogs([h1 EXCEPT ![steps.a][i].Logs = Slice(Len(h1), logs.n)],
                                steps, i + 1)
             ELSE cloneLogs(h, steps, i + 1)

\* cloneConversation that hands out the steps array it was given
cloneOnHeap_SharedSteps(h, c) ==
    LET h1 == Copied(h, c.Messages)
        h2 == Copied(h1, c.ModelCalls)
    IN  [heap |-> h2,
         conv |-> [NoHeld EXCEPT !.SessionID = c.SessionID, !.Prompt = c.Prompt,
                                 !.State = c.State, !.PlanVersion = c.PlanVersion,
                                 !.PlanText = c.PlanText,
                                 !.AwaitingReason = c.AwaitingReason,
                                 !.Steps = c.Steps,
                                 !.Messages = Slice(Len(h1), c.Messages.n),
                                 !.ModelCalls = Slice(Len(h2), c.ModelCalls.n)]]

\* cloneConversation: the heap after it and the conversation it returns
cloneOnHeap(h, c) ==
    LET h1 == Copied(h, c.Messages)
        h2 == Copied(h1, c.ModelCalls)
        h3 == Copied(h2, c.Steps)
        steps == Slice(Len(h3), c.Steps.n)
    IN  [heap |-> cloneLogs(h3, steps, 1),
         conv |-> [NoHeld EXCEPT !.SessionID = c.SessionID, !.Prompt = c.Prompt,
                                 !.State = c.State, !.PlanVersion = c.PlanVersion,
                                 !.PlanText = c.PlanText,
                                 !.AwaitingReason = c.AwaitingReason,
                                 !.Steps = steps,
                                 !.Messages = Slice(Len(h1), c.Messages.n),
                                 !.ModelCalls = Slice(Len(h2), c.ModelCalls.n)]]

\* append(s, x): in place when the capacity allows, into a new array otherwise
appended(h, s, x) ==
    IF s.n < Cap(h, s)
    THEN [heap |-> [h EXCEPT ![s.a][s.n + 1] = x], slice |-> Slice(s.a, s.n + 1)]
    ELSE [heap |-> Append(h, Append(Elems(h, s), x)), slice |-> Slice(Len(h) + 1, s.n + 1)]

\* the caller's conversations, as values
SampleStep == [NewStep(1, "a") EXCEPT !.Status = StepInProgress, !.Logs = <<"SUCCESS: ok">>]

SampleConvs ==
    LET running == [ZeroConv EXCEPT !.SessionID = "s1", !.Prompt = "ship it",
                                    !.State = StateExecuting, !.PlanVersion = 1,
                                    !.PlanText = "1) a\n2) b",
                                    !.Steps = <<SampleStep, NewStep(2, "b")>>,
                                    !.Messages = <<[Role |-> "user", Content |-> "hello"]>>,
                                    !.ModelCalls = <<ModelCall("plan", "", "1) a\n2) b",
                                                               "s1", 1)>>]
        finished == [ZeroConv EXCEPT !.SessionID = "s1", !.Prompt = "ship it",
                                     !.State = StateCompleted, !.PlanVersion = 1,
                                     !.PlanText = "PLAN:\n1) a\nACCEPT: c",
                                     !.AcceptanceCriteria = <<"c">>,
                                     !.Artifacts = <<newArtifact("ls", "out", 2)>>,
                                     !.CompletedMessage = "All steps completed.",
                                     !.CompletedAt = 3]
        unnamed == [ZeroConv EXCEPT !.Messages = <<[Role |-> "user", Content |-> "hello"]>>]
    IN  {running, finished, unnamed}

\* the ids the caller names
StoreIDs == {"s1", UnknownID}

\* the caller builds conversation v: a logs array with one spare place for
\* each step, then the steps, messages and calls arrays
RECURSIVE buildLogs(_, _, _)
buildLogs(h, stepSeq, i) ==
    IF i > Len(stepSeq) THEN [heap |-> h, steps |-> stepSeq]
    ELSE LET h1 == Append(h, Append(stepSeq[i].Logs, ""))
         IN  buildLogs(h1, [stepSeq EXCEPT ![i].Logs = Slice(Len(h1), Len(stepSeq[i].Logs))],
                       i + 1)

built(h, v) ==
    LET b == buildLogs(h, v.Steps, 1)
        h1 == Append(b.heap, b.steps)
        h2 == Append(h1, v.Messages)
        h3 == Append(h2, v.ModelCalls)
    IN  [heap |-> h3,
         conv |-> [v EXCEPT !.Steps = Slice(Len(h1), Len(v.Steps)),
                            !.Messages = Slice(Len(h2), Len(v.Messages)),
                            !.ModelCalls = Slice(Len(h3), Len(v.ModelCalls))]]

\* The garbage collector: the arrays no slice of the conversation held or
\* of a stored one reaches are dropped and the others take the addresses
\* 1, 2, ... in the order a walk from the conversation held finds them.
\* Addresses are not observable, so this changes nothing a caller can see.
RECURSIVE SetToSeq(_)
SetToSeq(S) == IF S = {} THEN <<>>
               ELSE LET x == CHOOSE y \in S : TRUE IN <<x>> \o SetToSeq(S \ {x})

RECURSIVE Uniq(_)
Uniq(q) == IF q = <<>> THEN <<>>
           ELSE LET r == Uniq(SubSeq(q, 1, Len(q) - 1))
                    x == q[Len(q)]
                IN  IF x = 0 \/ \E k \in 1..Len(r) : r[k] = x THEN r ELSE Append(r, x)

RECURSIVE LogAddrs(_, _)
LogAddrs(arr, i) == IF i > Len(arr) THEN <<>> ELSE <<arr[i].Logs.a>> \o LogAddrs(arr, i + 1)

AddrsOf(h, c) ==
    <<c.Steps.a>> \o (IF c.Steps.a = 0 THEN <<>> ELSE LogAddrs(h[c.Steps.a], 1))
        \o <<c.Messages.a, c.ModelCalls.a>>

RECURSIVE AddrsOfAll(_, _)
AddrsOfAll(h, cs) == IF cs = <<>> THEN <<>> ELSE AddrsOf(h, Head(cs)) \o AddrsOfAll(h, Tail(cs))

Collected(h, c, m) ==
    LET roots == <<c>> \o [k \in 1..Cardinality(DOMAIN m) |-> m[SetToSeq(DOMAIN m)[k]]]
        order == Uniq(AddrsOfAll(h, roots))
        stepArrays == {roots[k].Steps.a : k \in 1..Len(roots)}
        to(a) == IF a = 0 THEN 0 ELSE CHOOSE k \in 1..Len(order) : order[k] = a
        moved(x) == [x EXCEPT !.Steps = Slice(to(@.a), @.n),
                              !.Messages = Slice(to(@.a), @.n),
                              !.ModelCalls = Slice(to(@.a), @.n)]
    IN  [heap |-> [k \in 1..Len(order) |->
                     IF order[k] \in stepArrays
                     THEN [i \in 1..Len(h[order[k]]) |->
                             [h[order[k]][i] EXCEPT !.Logs = Slice(to(@.a), @.n)]]
                     ELSE h[order[k]]],
         held |-> moved(c),
         convs |-> [id \in DOMAIN m |-> moved(m[id])]]

\* the step ends with heap h, the caller holding c and the store's map m
Settle(h, c, m) ==
    LET g == Collected(h, c, m)
    IN  heap' = g.heap /\ held' = g.held /\ convs' = g.convs

Build(v) ==
    LET b == built(heap, v)
    IN  /\ Settle(b.heap, b.conv, convs)
        /\ sret' = StoreResult("new", v.SessionID, "", "new")
        /\ UNCHANGED <<svars, bvars, pvars>>

\* MemoryStore.Save without its test for an empty session id
HeapSave_Unchecked ==
    LET r == cloneOnHeap(heap, held)
    IN  /\ sret.origin # ""
        /\ Settle(r.heap, held,
                  [id \in DOMAIN convs \cup {held.SessionID} |->
                     IF id = held.SessionID THEN r.conv ELSE convs[id]])
        /\ sret' = StoreResult("save", held.SessionID, "", "save")
        /\ UNCHANGED <<svars, bvars, pvars>>

\* MemoryStore.Save of the conversation held
HeapSave ==
    /\ sret.origin # ""
    /\ IF held.SessionID = ""
       THEN /\ sret' = StoreResult("save", "", SaveError, "save")
            /\ UNCHANGED <<heap, held, convs>>
       ELSE LET r == cloneOnHeap(heap, held)
            IN  /\ Settle(r.heap, held,
                           [id \in DOMAIN convs \cup {held.SessionID} |->
                              IF id = held.SessionID THEN r.conv ELSE convs[id]])
                /\ sret' = StoreResult("save", held.SessionID, "", "save")
    /\ UNCHANGED <<svars, bvars, pvars>>

\* MemoryStore.Get
HeapGet(id) ==
    /\ IF id \notin DOMAIN convs
       THEN /\ sret' = StoreResult("get", id, NotFoundError, sret.origin)
            /\ UNCHANGED <<heap, held, convs>>
       ELSE LET r == cloneOnHeap(heap, convs[id])
            IN  /\ Settle(r.heap, r.conv, convs)
                /\ sret' = StoreResult("get", id, "", "get")
    /\ UNCHANGED <<svars, bvars, pvars>>

\* MemoryStore.Delete
HeapDelete(id) ==
    /\ Settle(heap, held, [k \in DOMAIN convs \ {id} |-> convs[k]])
    /\ sret' = StoreResult("delete", id, "", sret.origin)
    /\ UNCHANGED <<svars, bvars, pvars>>

\* the writes a caller makes to the conversation it holds
Writes == {"status", "log", "append log", "message", "reply"}

written(h, c, w) ==
    CASE w = "status" /\ c.Steps.n > 0 ->
            [heap |-> [h EXCEPT ![c.Steps.a][1].Status = StepFailed], conv |-> c]
      [] w = "log" /\ c.Steps.n > 0 /\ h[c.Steps.a][1].Logs.n > 0 ->
            [heap |-> [h EXCEPT ![h[c.Steps.a][1].Logs.a][1] = "edited"], conv |-> c]
      [] w = "append log" /\ c.Steps.n > 1 /\ h[c.Steps.a][2].Logs.n = 0 ->
            LET r == appended(h, h[c.Steps.a][2].Logs, "added")
            IN  [heap |-> [r.heap EXCEPT ![c.Steps.a][2].Logs = r.slice], conv |-> c]
      [] w = "message" /\ c.Messages.n > 0 ->
            [heap |-> [h EXCEPT ![c.Messages.a][1].Content = "edited"], conv |-> c]
      [] w = "reply" /\ c.ModelCalls.n > 0 ->
            [heap |-> [h EXCEPT ![c.ModelCalls.a][1].Reply = "edited"], conv |-> c]
      [] OTHER -> [heap |-> h, conv |-> c]

Write(w) ==
    LET r == written(heap, held, w)
    IN  /\ sret.origin # ""
        /\ Value(r.heap, r.conv) # Value(heap, held)
        /\ Settle(r.heap, r.conv, convs)
        /\ sret' = StoreResult("write", held.SessionID, "", sret.origin)
        /\ UNCHANGED <<svars, bvars, pvars>>

NextStore ==
    \/ \E v \in SampleConvs : Build(v)
    \/ HeapSave
    \/ \E id \in StoreIDs : HeapGet(id)
    \/ \E id \in StoreIDs : HeapDelete(id)
    \/ \E w \in Writes : Write(w)

SpecStore == Init /\ [][NextStore]_vars

(***************************************************************************)
(* The broker's operations.  Subscribe and Unsubscribe run under b.mu's    *)
(* write lock, so each is one step that waits until no publisher is inside *)
(* its loop; Publish holds the read lock from its first step to its last,  *)
(* so publishers run their loops side by side, one channel at a step.  The *)
(* step that visits the last channel also leaves the loop and unlocks.     *)
(***************************************************************************)
\* a publisher outside Publish
Idle == [pc |-> "idle", ev |-> NoEvent, todo |-> {}]

\* the publisher's position after one more channel, ch, of its loop
Visited(q, ch) == IF q.todo = {ch} THEN Idle ELSE [q EXCEPT !.todo = @ \ {ch}]

\* the publishers holding b.mu.RLock
Readers == {p \in Publishers : pub[p].pc = "loop"}

\* Subscribe
Subscribe ==
    LET ch == Cardinality(DOMAIN chan) + 1
    IN  /\ ch \in Channels
        /\ Readers = {}
        /\ chan' = [c \in DOMAIN chan \cup {ch} |->
                      IF c = ch THEN [buf |-> <<>>, closed |-> FALSE] ELSE chan[c]]
        /\ got' = [c \in DOMAIN got \cup {ch} |->
                     IF c = ch THEN [p \in Publishers |-> 0] ELSE got[c]]
        /\ subs' = subs \cup {ch}
        /\ UNCHANGED <<pub, npub, panicked, svars, hvars, pvars>>

\* Unsubscribe that does not take the lock
Unsubscribe_Unlocked(ch) ==
    /\ IF ch \in subs
       THEN /\ subs' = subs \ {ch}
            /\ chan' = [chan EXCEPT ![ch].closed = TRUE]
            /\ panicked' = (panicked \/ chan[ch].closed)
       ELSE UNCHANGED <<subs, chan, panicked>>
    /\ UNCHANGED <<pub, npub, got, svars, hvars, pvars>>

\* Unsubscribe; close panics on a channel that is closed already
Unsubscribe(ch) ==
    /\ Readers = {}
    /\ IF ch \in subs
       THEN /\ subs' = subs \ {ch}
            /\ chan' = [chan EXCEPT ![ch].closed = TRUE]
            /\ panicked' = (panicked \/ chan[ch].closed)
       ELSE UNCHANGED <<subs, chan, panicked>>
    /\ UNCHANGED <<pub, npub, got, svars, hvars, pvars>>

\* Publish: b.mu.RLock() and the start of the range over b.subs (all of
\* Publish when there is no subscriber)
PublishStart(p) ==
    /\ pub[p].pc = "idle"
    /\ npub[1] + npub[2] < MaxPubs
    /\ npub' = [npub EXCEPT ![p] = @ + 1]
    /\ pub' = [pub EXCEPT ![p] = IF subs = {} THEN Idle
                                 ELSE [pc |-> "loop", ev |-> Event(p, npub[p] + 1),
                                       todo |-> subs]]
    /\ UNCHANGED <<subs, chan, got, panicked, svars, hvars, pvars>>

\* a plain send `ch <- ev`, which waits for room in the channel
PublishSend_Blocking(p, ch) ==
    /\ pub[p].pc = "loop"
    /\ ch \in pub[p].todo
    /\ Len(chan[ch].buf) < QueueCap
    /\ pub' = [pub EXCEPT ![p] = Visited(@, ch)]
    /\ chan' = [chan EXCEPT ![ch].buf = Append(@, pub[p].ev)]
    /\ UNCHANGED <<subs, npub, got, panicked, svars, hvars, pvars>>

\* a send that puts the event at the head of the channel's buffer
PublishSend_AtHead(p, ch) ==
    /\ pub[p].pc = "loop"
    /\ ch \in pub[p].todo
    /\ pub' = [pub EXCEPT ![p] = Visited(@, ch)]
    /\ IF Len(chan[ch].buf) < QueueCap
       THEN chan' = [chan EXCEPT ![ch].buf = <<pub[p].ev>> \o @]
       ELSE chan' = chan
    /\ UNCHANGED <<subs, npub, got, panicked, svars, hvars, pvars>>

\* Publish: one iteration of the loop, `select { case ch <- ev: default: }`.
\* A send on a closed channel panics.
PublishSend(p, ch) ==
    /\ pub[p].pc = "loop"
    /\ ch \in pub[p].todo
    /\ pub' = [pub EXCEPT ![p] = Visited(@, ch)]
    /\ IF chan[ch].closed
       THEN chan' = chan /\ panicked' = TRUE
       ELSE /\ panicked' = panicked
            /\ IF Len(chan[ch].buf) < QueueCap
               THEN chan' = [chan EXCEPT ![ch].buf = Append(@, pub[p].ev)]
               ELSE chan' = chan
    /\ UNCHANGED <<subs, npub, got, svars, hvars, pvars>>

\* the channel's reader takes its next event (SSEHandler's `ev := <-ch`)
Receive(ch) ==
    /\ chan[ch].buf # <<>>
    /\ got' = [got EXCEPT ![ch][Head(chan[ch].buf).pub] = Head(chan[ch].buf).n]
    /\ chan' = [chan EXCEPT ![ch].buf = Tail(@)]
    /\ UNCHANGED <<subs, pub, npub, panicked, svars, hvars, pvars>>

NextBroker ==
    \/ Subscribe
    \/ \E ch \in DOMAIN chan : Unsubscribe(ch)
    \/ \E p \in Publishers : PublishStart(p)
    \/ \E p \in Publishers, ch \in DOMAIN chan : PublishSend(p, ch)
    \/ \E ch \in DOMAIN chan : Receive(ch)

SpecBroker == Init /\ [][NextBroker]_vars

(***************************************************************************)
(* The plan parser on its own: a plan reply of the model grows line by     *)
(* line, and parsePlanAndCriteria is applied to what has arrived.          *)
(***************************************************************************)
\* the first line of a plan reply, and the lines that follow it
FirstLines == {"1) a", " ", "PLAN:", "ACCEPT: c"}
MoreLines == {"2) b", " "}

InitParse ==
    /\ ServiceInit
    /\ forking = FALSE
    /\ HeapInit
    /\ BrokerInit
    /\ planReply \in FirstLines
    /\ planParsed = parsePlanAndCriteria(planReply)

\* the reply with one more line, parsed
ParseReply(line) ==
    /\ Len(Split(planReply, "\n")) < MaxLines
    /\ planReply' = planReply \o "\n" \o line
    /\ planParsed' = parsePlanAndCriteria(planReply')
    /\ UNCHANGED <<svars, hvars, bvars>>

NextParse == \E line \in MoreLines : ParseReply(line)

SpecParse == InitParse /\ [][NextParse]_vars

(***************************************************************************)
(* Properties.                                                             *)
(***************************************************************************)
AllIdle == \A t \in Threads : pc[t] = "idle"

Stored == ListIDs(store)

HasExecCall(c) == \E n \in 1..Len(c.ModelCalls) : c.ModelCalls[n].Prompt.kind = "execute_step"

PendingCommandSteps(c) == {k \in 1..Len(c.Steps) : c.Steps[k].PendingCommand # ""}

PendingInfoSteps(c) ==
    {k \in 1..Len(c.Steps) : c.Steps[k].PendingInfo # "" \/ c.Steps[k].PendingDependency # ""}

\* C1: every conversation read back from the store that is completed has a
\* non-zero completed_at and a non-empty completed_message.
C1_CompletedHasMessage ==
    \A id \in Stored :
        Get(store, id).State = StateCompleted
            => /\ Get(store, id).CompletedAt # 0
               /\ Get(store, id).CompletedMessage # ""

\* C2: between orchestrator calls, a stored conversation in awaiting_command
\* has exactly one step with a non-empty pending_command, and one in
\* awaiting_info has exactly one step with a non-empty pending_info or
\* pending_dependency.
C2_ExactlyOnePending ==
    AllIdle =>
        \A id \in Stored :
            /\ Get(store, id).State = StateAwaitingCommand
                  => Cardinality(PendingCommandSteps(Get(store, id))) = 1
            /\ Get(store, id).State = StateAwaitingInfo
                  => Cardinality(PendingInfoSteps(Get(store, id))) = 1

\* C3: approve_plan on a conversation that is not awaiting plan approval (or
\* is not stored) returns an error in the step that starts it, with no model
\* call and the store unchanged; on one that is awaiting plan approval it
\* sets the state to executing and clears awaiting_reason, and its next step
\* saves that record and enters the advance loop at the first step.
C3_ApprovePlanGate ==
    [][ /\ \A id \in ClientIDs :
              ApprovePlan(1, id) =>
                  /\ store' = store
                  /\ calls' = calls
                  /\ IF Found(store, id) /\ Get(store, id).State = StateAwaitingPlanApproval
                     THEN /\ pc'[1] = "save_adv"
                          /\ conv'[1].State = StateExecuting
                          /\ conv'[1].AwaitingReason = ""
                          /\ conv'[1].Steps = Get(store, id).Steps
                     ELSE /\ pc'[1] = "idle"
                          /\ ret'[1].op = "ApprovePlan"
                          /\ ret'[1].err # ""
                          /\ ret'[1].conv = ZeroConv
        /\ (pc[1] = "save_adv" /\ arg[1].op = "ApprovePlan") =>
              /\ Found(store', arg[1].id)
              /\ Get(store', arg[1].id) = cloneConversation(conv[1])
              /\ Get(store', arg[1].id).State = StateExecuting
              /\ Get(store', arg[1].id).AwaitingReason = ""
              /\ calls' = calls
              /\ pc'[1] = "adv"
              /\ arg'[1].i = 1
      ]_vars

\* C3 witness: approve_plan has just been refused for a stored conversation
\* that had already been approved and run to completion.
C3_Witness ==
    /\ pc[1] = "idle"
    /\ ret[1].op = "ApprovePlan"
    /\ ret[1].err = "conversation not awaiting plan approval"
    /\ ret[1].id \in Stored
    /\ store[ret[1].id].State = StateCompleted

\* C4: once a stored conversation is completed, no step changes its state,
\* its steps' statuses or its completed_message/completed_at while it stays
\* stored (close removes it).
C4_CompletedIsTerminal ==
    [][ \A id \in Stored :
           (Get(store, id).State = StateCompleted /\ Found(store', id)) =>
               /\ Get(store', id).State = StateCompleted
               /\ Len(Get(store', id).Steps) = Len(Get(store, id).Steps)
               /\ \A k \in 1..Len(Get(store, id).Steps) :
                     Get(store', id).Steps[k].Status = Get(store, id).Steps[k].Status
               /\ Get(store', id).CompletedMessage = Get(store, id).CompletedMessage
               /\ Get(store', id).CompletedAt = Get(store, id).CompletedAt
      ]_vars

\* C5: plan_version of a stored conversation never decreases from one read of
\* the store to the next, also when the calls of two clients interleave.
C5_PlanVersionMonotone ==
    [][ \A id \in Stored :
           Found(store', id) => Get(store', id).PlanVersion >= Get(store, id).PlanVersion
      ]_vars

\* C6: a successful replan (resolveBlock returning nil) leaves, in the stored
\* record, plan_version one higher, plan_text, steps and acceptance_criteria
\* those of the unblock reply, the unblock call appended to model_calls, and
\* state awaiting_plan_approval with reason "Awaiting plan approval after
\* block"; and a stored conversation awaiting plan approval has only pending
\* steps.
C6_ReplanReplacesPlan ==
    [][ /\ (pc[1] = "resolve" /\ pc'[1] = "idle" /\ ret'[1].err = "") =>
              LET new == Get(store', ret'[1].conv.SessionID)
                  reply == new.ModelCalls[Len(new.ModelCalls)].Reply
              IN  /\ new.PlanVersion = conv[1].PlanVersion + 1
                  /\ Len(new.ModelCalls) = Len(conv[1].ModelCalls) + 1
                  /\ SubSeq(new.ModelCalls, 1, Len(conv[1].ModelCalls)) = conv[1].ModelCalls
                  /\ new.ModelCalls[Len(new.ModelCalls)].Prompt.kind = "unblock"
                  /\ new.PlanText = reply
                  /\ new.Steps = parsePlanAndCriteria(reply).steps
                  /\ new.AcceptanceCriteria = parsePlanAndCriteria(reply).acceptance
                  /\ new.State = StateAwaitingPlanApproval
                  /\ new.AwaitingReason = "Awaiting plan approval after block"
        /\ \A id \in ListIDs(store') :
              Get(store', id).State = StateAwaitingPlanApproval =>
                  \A k \in 1..Len(Get(store', id).Steps) :
                      /\ Get(store', id).Steps[k].Status = StepPending
                      /\ Get(store', id).Steps[k].Logs = <<>>
      ]_vars

\* C7: within one plan version a stored step that is done stays done.
C7_DoneStaysDone ==
    [][ \A id \in Stored :
           (Found(store', id) /\ Get(store', id).PlanVersion = Get(store, id).PlanVersion) =>
               \A k \in 1..Len(Get(store, id).Steps) :
                   Get(store, id).Steps[k].Status = StepDone =>
                       /\ k <= Len(Get(store', id).Steps)
                       /\ Get(store', id).Steps[k].Status = StepDone
      ]_vars

\* a reply starts with a directive: after trimming, whatever the letters' case
StartsWith(reply, directive) == HasPrefix(ToUpper(TrimSpace(reply)), directive)

\* what the first client's running call holds after a step: the conversation
\* it returned, or its local one when the call goes on
After(t) == IF pc'[t] = "idle" THEN ret'[t].conv ELSE conv'[t]

\* C8: a send that succeeds on a conversation read in state awaiting_info
\* re-enters the advance loop (the stored model_calls gain a step-execution
\* call and the returned call is that call, not a chat call) and, while the
\* plan version is the same, every step that was waiting for info has a
\* "USER_INFO: <msg>" log entry and its pending_info/pending_dependency
\* cleared.
C8_SendUnblocksAwaitingInfo ==
    [][ (/\ pc[1] = "send_call"
         /\ conv[1].State = StateAwaitingInfo
         /\ pc'[1] = "idle"
         /\ ret'[1].err = "") =>
            LET new == Get(store', arg[1].id)
                n == Len(conv[1].ModelCalls)
            IN  /\ Len(new.ModelCalls) > n
                /\ new.ModelCalls[n + 1].Prompt.kind = "execute_step"
                /\ ret'[1].call.Prompt.kind = "execute_step"
                /\ new.PlanVersion = conv[1].PlanVersion =>
                      \A k \in PendingInfoSteps(conv[1]) :
                          /\ \E j \in 1..Len(new.Steps[k].Logs) :
                                new.Steps[k].Logs[j] = "USER_INFO: " \o arg[1].msg
                          /\ new.Steps[k].Logs # conv[1].Steps[k].Logs
      ]_vars

PassingVerify(call) ==
    /\ call.Prompt.kind = "verify"
    /\ StartsWith(call.Reply, "PASS") \/ StartsWith(call.Reply, "SUCCESS")

\* the model calls of the current plan version: those after the last plan or
\* unblock call
RECURSIVE SinceLastPlan(_)
SinceLastPlan(callSeq) ==
    IF Len(callSeq) = 0 THEN <<>>
    ELSE IF callSeq[Len(callSeq)].Prompt.kind \in {"plan", "unblock"} THEN <<>>
    ELSE Append(SinceLastPlan(SubSeq(callSeq, 1, Len(callSeq) - 1)), callSeq[Len(callSeq)])

\* C9: between calls, a stored conversation that is completed was verified
\* exactly when its plan carries acceptance criteria: with criteria, one
\* verify call of the current plan version was made and it passed; without,
\* no verify call was made for the current plan version.
C9_CompletedMeansVerified ==
    AllIdle =>
        \A id \in Stored :
            Get(store, id).State = StateCompleted =>
                LET c == Get(store, id)
                    verifies == {n \in 1..Len(SinceLastPlan(c.ModelCalls)) :
                                    SinceLastPlan(c.ModelCalls)[n].Prompt.kind = "verify"}
                IN  IF parsePlanAndCriteria(c.PlanText).acceptance # <<>>
                    THEN /\ Cardinality(verifies) = 1
                         /\ \A n \in verifies : PassingVerify(SinceLastPlan(c.ModelCalls)[n])
                    ELSE verifies = {}

\* the command a discovery reply names: what follows its COMMAND: prefix
NamedCommand(d) == TrimSpace(SliceFrom(TrimSpace(d), 8))

\* C10: the step of the advance loop that executes a plan step whose reply
\* starts with NEED: or DEPENDENCY: makes exactly one more model call, the
\* propose_command call, marks the step blocked, saves and returns.  When the
\* discovery reply starts with COMMAND: the step gets the command it names as
\* pending_command and the conversation is awaiting_command; otherwise (the
\* call failed, or replied anything else) the step gets the NEED or DEPENDENCY
\* payload as pending_info or pending_dependency and the conversation is
\* awaiting_info.
C10_Discovery ==
    [][ (pc[1] = "adv" /\ calls' > calls
            /\ Len(After(1).ModelCalls) > Len(conv[1].ModelCalls)) =>
        LET old == conv[1]
            new == After(1)
            n == Len(old.ModelCalls)
            r == new.ModelCalls[n + 1].Reply
            i == findStep(old, new.ModelCalls[n + 1].Prompt.step)
        IN  (StartsWith(r, "NEED:") \/ StartsWith(r, "DEPENDENCY:")) =>
                /\ calls' = calls + 2
                /\ Len(new.ModelCalls) = n + 2
                /\ new.ModelCalls[n + 2].Prompt.kind = "propose_command"
                /\ pc'[1] = "idle"
                /\ ret'[1].err = ""
                /\ new.Steps[i].Status = StepBlocked
                /\ Get(store', new.SessionID) = cloneConversation(new)
                /\ LET d == new.ModelCalls[n + 2].Reply
                   IN  IF StartsWith(d, "COMMAND:")
                       THEN /\ new.State = StateAwaitingCommand
                            /\ new.Steps[i].PendingCommand = NamedCommand(d)
                            /\ new.Steps[i].PendingInfo = old.Steps[i].PendingInfo
                            /\ new.Steps[i].PendingDependency = old.Steps[i].PendingDependency
                       ELSE /\ new.State = StateAwaitingInfo
                            /\ new.Steps[i].PendingCommand = old.Steps[i].PendingCommand
                            /\ IF StartsWith(r, "NEED:")
                               THEN new.Steps[i].PendingInfo
                                        = TrimSpace(SliceFrom(TrimSpace(r), 5))
                               ELSE new.Steps[i].PendingDependency
                                        = TrimSpace(SliceFrom(TrimSpace(r), 11))
      ]_vars

\* C11: a shell command runs only in approve_command's command step, and the
\* command line is the pending_command stored on the named step; the step of
\* the advance loop whose reply starts with COMMAND: runs nothing and leaves
\* the step blocked and the conversation awaiting_command; approve_command
\* for a conversation that is not stored, a step id that is not in the plan
\* or a step with no pending_command returns an error at once and runs
\* nothing.
C11_CommandsRunOnlyOnApproval ==
    [][ /\ ran' # ran =>
              /\ pc[1] = "exec"
              /\ arg[1].op = "ApproveCommand"
              /\ Found(store, arg[1].id)
              /\ LET c == Get(store, arg[1].id)
                     k == findStep(c, arg[1].step)
                 IN  /\ k # 0
                     /\ c.Steps[k].PendingCommand # ""
                     /\ ran' = Append(ran, c.Steps[k].PendingCommand)
        /\ (pc[1] = "adv" /\ calls' > calls
                /\ Len(After(1).ModelCalls) > Len(conv[1].ModelCalls)) =>
              LET new == After(1)
                  call == new.ModelCalls[Len(conv[1].ModelCalls) + 1]
              IN  StartsWith(call.Reply, "COMMAND:") =>
                     /\ ran' = ran
                     /\ pc'[1] = "idle"
                     /\ new.State = StateAwaitingCommand
                     /\ new.Steps[findStep(new, call.Prompt.step)].Status = StepBlocked
                     /\ Get(store', new.SessionID).State = StateAwaitingCommand
        /\ \A id \in ClientIDs, sid \in StepIDs :
              (/\ ApproveCommand(1, id, sid)
               /\ \/ ~Found(store, id)
                  \/ findStep(Get(store, id), sid) = 0
                  \/ Get(store, id).Steps[findStep(Get(store, id), sid)].PendingCommand = "")
              => /\ pc'[1] = "idle"
                 /\ ret'[1].op = "ApproveCommand"
                 /\ ret'[1].err # ""
                 /\ ran' = ran
                 /\ store' = store
      ]_vars

\* C11 witness: approve_command has run the command "ls" that a COMMAND: reply
\* had left pending, and returned.
C11_Witness ==
    /\ pc[1] = "idle"
    /\ ret[1].op = "ApproveCommand"
    /\ ret[1].err = ""
    /\ ran = <<"ls">>
    /\ \E n \in 1..Len(ret[1].conv.ModelCalls) :
          ret[1].conv.ModelCalls[n].Reply = "COMMAND: ls"

\* the last entry of a sequence
Last(s) == s[Len(s)]

\* C12: approve_command's command step.  When the shell fails, the step is
\* blocked, the conversation is in state blocked with an awaiting_reason that
\* starts "Command failed:", the pending_command is cleared, the record is
\* saved and the call returns it with no error; when the shell succeeds, the
\* step is done, the state is executing, the record is saved and the advance
\* loop is entered at the first step.  The outcome of the shell is read from
\* the output it left as the step's last log entry.
C12_CommandOutcome ==
    [][ (pc[1] = "exec") =>
            LET k == arg[1].target
                new == After(1)
            IN  /\ Len(new.Steps) >= k
                /\ new.Steps[k].PendingCommand = ""
                /\ Get(store', arg[1].id) = cloneConversation(new)
                /\ \E sh \in Shell :
                      /\ Last(new.Steps[k].Logs) = sh.output
                      /\ IF sh.err # ""
                         THEN /\ pc'[1] = "idle"
                              /\ ret'[1].err = ""
                              /\ new.Steps[k].Status = StepBlocked
                              /\ new.State = StateBlocked
                              /\ HasPrefix(new.AwaitingReason, "Command failed:")
                         ELSE /\ pc'[1] = "adv"
                              /\ arg'[1].i = 1
                              /\ new.Steps[k].Status = StepDone
                              /\ new.State = StateExecuting
      ]_vars

\* C12 witness: approve_command has returned a conversation whose command
\* failed.
C12_Witness ==
    /\ pc[1] = "idle"
    /\ ret[1].op = "ApproveCommand"
    /\ ret[1].err = ""
    /\ ret[1].conv.State = StateBlocked
    /\ HasPrefix(ret[1].conv.AwaitingReason, "Command failed:")
    /\ Len(ran) = 1
    /\ Get(store, ret[1].id).State = StateBlocked

\* C13: between calls, the only conversation ever opened, while stored, has as
\* many artifacts as commands were run; and the artifacts of a stored
\* conversation are only ever appended to.
C13_ArtifactPerCommand ==
    [][ /\ (AllIdle' /\ nsess' = 1) =>
              \A id \in ListIDs(store') : Len(Get(store', id).Artifacts) = Len(ran')
        /\ \A id \in Stored :
              Found(store', id) =>
                  /\ Len(Get(store', id).Artifacts) >= Len(Get(store, id).Artifacts)
                  /\ SubSeq(Get(store', id).Artifacts, 1, Len(Get(store, id).Artifacts))
                        = Get(store, id).Artifacts
      ]_vars

\* C14: the step of the advance loop whose model call failed (no reply), or
\* whose reply starts with BLOCKED or ERROR, leaves the step blocked and the
\* conversation saved in state replanning, and goes on to the unblock call
\* within the same orchestrator call.  The unblock step returns an error
\* exactly when its model call failed, and then the stored conversation is
\* untouched: still replanning, with the old plan.
C14_BlockedStepReplans ==
    [][ /\ (pc[1] = "adv" /\ calls' > calls
                /\ Len(After(1).ModelCalls) > Len(conv[1].ModelCalls)) =>
              LET new == After(1)
                  call == new.ModelCalls[Len(conv[1].ModelCalls) + 1]
                  i == findStep(conv[1], call.Prompt.step)
              IN  (\/ call.Reply = ""
                   \/ StartsWith(call.Reply, "BLOCKED")
                   \/ StartsWith(call.Reply, "ERROR")) =>
                     /\ pc'[1] = "resolve"
                     /\ calls' = calls + 1
                     /\ new.Steps[i].Status = StepBlocked
                     /\ new.State = StateReplanning
                     /\ Get(store', new.SessionID) = cloneConversation(new)
        /\ (pc[1] = "resolve") =>
              /\ pc'[1] = "idle"
              /\ calls' = calls + 1
              /\ IF ret'[1].err # ""
                 THEN /\ store' = store
                      /\ Get(store, conv[1].SessionID).State = StateReplanning
                      /\ Get(store, conv[1].SessionID).PlanVersion = conv[1].PlanVersion
                      /\ Get(store, conv[1].SessionID).PlanText = conv[1].PlanText
                      /\ Get(store, conv[1].SessionID).Steps = conv[1].Steps
                 ELSE /\ Last(ret'[1].conv.ModelCalls).Prompt.kind = "unblock"
                      /\ Last(ret'[1].conv.ModelCalls).Reply # ""
                      /\ ret'[1].conv.State = StateAwaitingPlanApproval
                      /\ Get(store', ret'[1].conv.SessionID) = cloneConversation(ret'[1].conv)
      ]_vars

\* C14 witness: approve_plan has returned the unblock call's error after a
\* step replied " error"; the stored conversation is replanning with its
\* first plan.
C14_Witness ==
    /\ pc[1] = "idle"
    /\ ret[1].op = "ApprovePlan"
    /\ ret[1].err = DriverError
    /\ Found(store, ret[1].id)
    /\ Get(store, ret[1].id).State = StateReplanning
    /\ Get(store, ret[1].id).PlanVersion = 1
    /\ Last(Get(store, ret[1].id).ModelCalls).Reply = " error"

\* C15: every model call or shell call that fails inside an orchestrator call
\* on a stored conversation leaves that conversation stored in state
\* replanning: the step-execution call, the verification call, the unblock
\* call, and the command run by approve_command.
C15_FailedCallReplans ==
    [][ /\ (pc[1] = "adv" /\ calls' > calls
                /\ Len(After(1).ModelCalls) > Len(conv[1].ModelCalls)
                /\ After(1).ModelCalls[Len(conv[1].ModelCalls) + 1].Reply = "") =>
              Get(store', After(1).SessionID).State = StateReplanning
        /\ (pc[1] \in {"verify", "resolve"} /\ pc'[1] = "idle" /\ ret'[1].err # "") =>
              Get(store', conv[1].SessionID).State = StateReplanning
        /\ (pc[1] = "exec" /\ Last(After(1).Steps[arg[1].target].Logs) = "boom") =>
              Get(store', arg[1].id).State = StateReplanning
      ]_vars

\* the model invocations a step makes for the stored conversation `id` that
\* the ledger is to show: those of the orchestrator (step execution,
\* discovery, verification, unblock), failed ones included, and a chat send
\* that got its reply
Invocations(id) ==
    IF pc[1] \in {"adv", "verify", "resolve"} /\ conv[1].SessionID = id
    THEN calls' - calls
    ELSE IF pc[1] = "send_call" /\ conv[1].SessionID = id /\ ret'[1].err = ""
    THEN 1
    ELSE 0

\* C16: the model_calls of a stored conversation grow, at every step, by the
\* model invocations the step made for it, and only by appending; a
\* conversation that is first stored has one entry per invocation that made
\* it.
C16_LedgerCountsInvocations ==
    [][ /\ \A id \in Stored :
              Found(store', id) =>
                  /\ Len(Get(store', id).ModelCalls)
                        = Len(Get(store, id).ModelCalls) + Invocations(id)
                  /\ SubSeq(Get(store', id).ModelCalls, 1, Len(Get(store, id).ModelCalls))
                        = Get(store, id).ModelCalls
        /\ \A id \in ListIDs(store') \ Stored :
              Len(Get(store', id).ModelCalls) = calls' - calls
      ]_vars

\* C17: create_conversation with a prompt that is empty after trimming
\* returns an error without calling the model; with any other prompt it
\* calls the model once, and when it returns an error (the model's) nothing
\* was stored: the store, and so its id list, is unchanged.
C17_CreateFailsCleanly ==
    [][ \A p \in Prompts :
           CreateConversation(1, p, FALSE) =>
               /\ pc'[1] = "idle"
               /\ ret'[1].op = "CreateConversation"
               /\ IF TrimSpace(p) = ""
                  THEN /\ ret'[1].err # ""
                       /\ calls' = calls
                       /\ store' = store
                  ELSE /\ calls' = calls + 1
                       /\ ret'[1].err # "" =>
                             /\ store' = store
                             /\ ListIDs(store') = ListIDs(store)
                             /\ ret'[1].conv = ZeroConv
      ]_vars

\* C17 witness: create_conversation has returned the model's error and the
\* store is empty.
C17_Witness ==
    /\ pc[1] = "idle"
    /\ ret[1].op = "CreateConversation"
    /\ ret[1].err = DriverError
    /\ calls = 1
    /\ ListIDs(store) = {}

\* C18: a create_conversation that returns no error has made exactly one
\* model call, the planning call, and has stored a new conversation under the
\* session id the model returned: state awaiting_plan_approval, plan_version
\* 1, a non-empty awaiting_reason, one model_calls entry (the planning call),
\* and the steps parsed from the reply, all pending.  The conversation is in
\* the store's id list and has an item in the inbox.
C18_CreateStoresPlan ==
    [][ \A p \in Prompts :
           (CreateConversation(1, p, FALSE) /\ ret'[1].err = "") =>
               LET id == ret'[1].conv.SessionID
                   c == Get(store', id)
               IN  /\ calls' = calls + 1
                   /\ id = SessionIds[nsess + 1]
                   /\ id \notin ListIDs(store)
                   /\ id \in ListIDs(store')
                   /\ c.SessionID = id
                   /\ c.Prompt = TrimSpace(p)
                   /\ c.State = StateAwaitingPlanApproval
                   /\ c.PlanVersion = 1
                   /\ c.AwaitingReason # ""
                   /\ Len(c.ModelCalls) = 1
                   /\ c.ModelCalls[1].Prompt.kind = "plan"
                   /\ c.PlanText = c.ModelCalls[1].Reply
                   /\ c.Steps = parsePlanAndCriteria(c.PlanText).steps
                   /\ \A k \in 1..Len(c.Steps) : c.Steps[k].Status = StepPending
                   /\ \E item \in ListInbox(store') :
                         item.SessionID = id /\ item.State = StateAwaitingPlanApproval
      ]_vars

\* C18 witness: create_conversation has returned a conversation with two
\* pending steps, which is stored and in the inbox.
C18_Witness ==
    /\ pc[1] = "idle"
    /\ ret[1].op = "CreateConversation"
    /\ ret[1].err = ""
    /\ Len(ret[1].conv.Steps) = 2
    /\ ret[1].conv.SessionID \in ListIDs(store)
    /\ \E item \in ListInbox(store) : item.SessionID = ret[1].conv.SessionID

\* C19: send with an empty id and a message that is not blank makes one model
\* call.  When it returns no error, a new conversation is stored under the
\* session id the model returned, with messages exactly the user's (trimmed)
\* message and the assistant's reply, one model_calls entry, and an empty
\* state; when the model call fails, send returns an error and stores
\* nothing.
C19_SendOpensChat ==
    [][ /\ \A m \in Messages :
              (Send(1, "", m) /\ TrimSpace(m) # "") =>
                  /\ pc'[1] = "send_call"
                  /\ arg'[1].id = ""
                  /\ arg'[1].msg = TrimSpace(m)
                  /\ store' = store
        /\ (pc[1] = "send_call" /\ arg[1].id = "") =>
              /\ pc'[1] = "idle"
              /\ calls' = calls + 1
              /\ IF ret'[1].err # ""
                 THEN store' = store /\ ret'[1].call = NoCall
                 ELSE LET id == ret'[1].call.SessionID
                          c == Get(store', id)
                      IN  /\ id = SessionIds[nsess + 1]
                          /\ ListIDs(store') = ListIDs(store) \cup {id}
                          /\ id \notin ListIDs(store)
                          /\ c.SessionID = id
                          /\ c.Messages = <<[Role |-> "user", Content |-> arg[1].msg],
                                            [Role |-> "assistant",
                                             Content |-> ret'[1].call.Reply]>>
                          /\ c.ModelCalls = <<ret'[1].call>>
                          /\ ret'[1].call.Reply # ""
                          /\ c.State = ""
                          /\ c.Steps = <<>>
      ]_vars

\* C19 witness: send("", "hello") has returned the call with reply "pong"
\* and the chat-only conversation is stored.
C19_Witness ==
    /\ pc[1] = "idle"
    /\ ret[1].op = "Send"
    /\ ret[1].id = ""
    /\ ret[1].err = ""
    /\ ret[1].call.Reply = "pong"
    /\ Found(store, ret[1].call.SessionID)
    /\ Get(store, ret[1].call.SessionID).State = ""
    /\ Len(Get(store, ret[1].call.SessionID).Messages) = 2

WaitingStates ==
    {StateAwaitingPlanApproval, StateAwaitingCommand, StateAwaitingInfo,
     StateAwaitingStepApproval, StateReplanning, StateBlocked}

\* C20: between calls, the inbox has exactly one item for every stored
\* conversation in a waiting state and for every stored conversation that
\* ran to completion, and none for any other; the item shows the
\* conversation's state, and the id, title and pending fields of a step that
\* has a pending field when the conversation has such a step.
C20_InboxShowsWaiting ==
    AllIdle =>
        \A id \in Stored :
            LET c == Get(store, id)
                items == {item \in ListInbox(store) : item.SessionID = id}
            IN  IF c.State \in WaitingStates \cup {StateCompleted}
                THEN /\ Cardinality(items) = 1
                     /\ \A item \in items :
                           /\ item.State = c.State
                           /\ (PendingCommandSteps(c) \cup PendingInfoSteps(c)) # {} =>
                                 \E k \in PendingCommandSteps(c) \cup PendingInfoSteps(c) :
                                     /\ item.StepID = c.Steps[k].ID
                                     /\ item.StepTitle = c.Steps[k].Title
                                     /\ \/ item.PendingCommand = c.Steps[k].PendingCommand
                                           /\ item.PendingCommand # ""
                                        \/ /\ item.PendingInfo = c.Steps[k].PendingInfo
                                           /\ item.PendingDependency
                                                 = c.Steps[k].PendingDependency
                                           /\ item.PendingInfo # ""
                                              \/ item.PendingDependency # ""
                ELSE items = {}


\* what a get of each stored id returns
StoredValues == [id \in DOMAIN convs |-> Value(heap, convs[id])]

\* C21: a conversation returned by the store's get, or passed to its save,
\* shares no mutable substructure with the stored record: a write by the
\* caller to the steps, step logs, messages or model calls of the value it
\* holds (and a get, which only reads) leaves what every later get returns
\* as it was, and a save or delete leaves the caller's own value as it was.
C21_StoreSharesNothing ==
    [][/\ sret'.op \in {"write", "new", "get"} => StoredValues' = StoredValues
       /\ sret'.op \in {"save", "delete"} => Value(heap', held') = Value(heap, held)]_vars

\* the caller holds a conversation it got from the store or saved to it, has
\* written to its first step's status and log, and the stored record still
\* has the step as it was saved
C21_Witness ==
    /\ sret.op = "write"
    /\ sret.origin \in {"get", "save"}
    /\ held.SessionID \in DOMAIN convs
    /\ Value(heap, held).Steps[1].Status = StepFailed
    /\ Value(heap, held).Steps[1].Logs = <<"edited">>
    /\ StoredValues[held.SessionID].Steps[1] = SampleStep


\* C22: save(conv) followed by get(conv.session_id) returns a record equal
\* to conv in every field: a successful save stores the value of the
\* conversation it was given, and a successful get returns the stored value.
C22_SaveGetRoundTrip ==
    [][/\ sret'.op = "save" /\ sret'.err = ""
          => StoredValues'[held.SessionID] = Value(heap, held)
       /\ sret'.op = "get" /\ sret'.err = ""
          => Value(heap', held') = StoredValues[sret'.id]]_vars


\* C23: the store's save rejects a record with an empty session_id with an
\* error and leaves the store unchanged; delete succeeds whether or not the
\* id is stored, removes that id and nothing else, and changes nothing when
\* the id is absent; a get of an id that is not stored (never saved, or
\* deleted) reports not-found and every other get succeeds.
C23_SaveRejectsDeleteIdempotent ==
    [][/\ sret'.op = "save" => (sret'.err # "" <=> held.SessionID = "")
       /\ sret'.op = "save" /\ sret'.err # "" => convs' = convs /\ heap' = heap
       /\ sret'.op = "delete"
          => /\ sret'.err = ""
             /\ DOMAIN convs' = DOMAIN convs \ {sret'.id}
             /\ \A id \in DOMAIN convs' : StoredValues'[id] = StoredValues[id]
             /\ sret'.id \notin DOMAIN convs => convs' = convs
       /\ sret'.op = "get" => (sret'.err # "" <=> sret'.id \notin DOMAIN convs)]_vars

\* a save of a conversation without session id was refused while a record
\* was stored
C23_Witness ==
    /\ sret.op = "save"
    /\ sret.err = SaveError
    /\ held.SessionID = ""
    /\ DOMAIN convs = {"s1"}


\* C24: once a conversation has a session_id, the id never changes: while a
\* call on the conversation runs, the conversation it works on keeps the id
\* the call was given, whatever thread id the driver reports, each model
\* call is issued with that id, and the call's saves put no record under
\* another key.
C24_SessionIdStable ==
    [][\A t \in Threads :
          pc[t] # "idle" /\ arg[t].id # ""
          => /\ conv[t].SessionID = arg[t].id
             /\ DOMAIN store' \subseteq DOMAIN store]_vars


\* channel ch has taken in event e: it is in the queue, or received
Taken(ch, e) ==
    \/ \E k \in 1..Len(chan[ch].buf) : chan[ch].buf[k] = e
    \/ got[ch][e.pub] = e.n

\* C25: publish never blocks: a publisher inside its loop can always take
\* its next step on any channel it has still to visit; on that step the
\* event is enqueued if the channel holds fewer than QueueCap events and is
\* dropped otherwise, no other channel's queue changes, and no queue ever
\* holds more than QueueCap events.
C25_PublishNeverBlocks ==
    /\ [](\A ch \in DOMAIN chan : Len(chan[ch].buf) <= QueueCap)
    /\ [](\A p \in Publishers : \A ch \in pub[p].todo : ENABLED PublishSend(p, ch))
    /\ [][\A p \in Publishers : \A ch \in pub[p].todo \ pub'[p].todo :
             /\ chan'[ch].buf = IF Len(chan[ch].buf) < QueueCap
                                THEN Append(chan[ch].buf, pub[p].ev)
                                ELSE chan[ch].buf
             /\ \A other \in DOMAIN chan \ {ch} : chan'[other] = chan[other]]_vars

\* a publisher has finished a Publish whose event was dropped for channel
\* 1, which is full without it, and was delivered to channel 2
C25_Witness ==
    /\ subs = {1, 2}
    /\ Len(chan[1].buf) = QueueCap
    /\ \E p \in Publishers :
          /\ pub[p].pc = "idle"
          /\ npub[p] > 0
          /\ ~Taken(1, Event(p, npub[p]))
          /\ Taken(2, Event(p, npub[p]))


\* C26: under any interleaving of publish, subscribe and unsubscribe, a
\* channel is closed exactly when it has been unsubscribed: unsubscribe
\* takes it out of the subscriber set and closes it, once (no close of a
\* closed channel, no send on one: neither panics), a closed channel stays
\* closed and out of the set, and no publish delivers to it afterwards: no
\* publisher has it left to visit and its queue takes in nothing more.
C26_UnsubscribeClosesOnce ==
    /\ [](~panicked)
    /\ [](\A ch \in DOMAIN chan : chan[ch].closed <=> ch \notin subs)
    /\ [](\A p \in Publishers : \A ch \in pub[p].todo : ~chan[ch].closed)
    /\ [][\A ch \in DOMAIN chan :
             chan[ch].closed
             => /\ chan'[ch].closed
                /\ ch \notin subs'
                /\ \/ chan'[ch].buf = chan[ch].buf
                   \/ chan[ch].buf # <<>> /\ chan'[ch].buf = Tail(chan[ch].buf)]_vars

\* channel 1 was unsubscribed with an event still in its queue, and a
\* publisher is inside a later Publish that visits channel 2 only
C26_Witness ==
    /\ 1 \in DOMAIN chan
    /\ chan[1].closed
    /\ chan[1].buf # <<>>
    /\ subs = {2}
    /\ \E p \in Publishers : pub[p].pc = "loop" /\ pub[p].todo = {2}


\* C27: for every subscriber and every publisher thread, the events of the
\* publisher that the subscriber receives arrive in the order the publisher
\* published them, each at most once: the numbers of the publisher's events
\* in the channel's queue increase from head to tail and are above the
\* number of the last one received, and the number of the last one
\* received only grows.
C27_OrderPerPublisher ==
    /\ [](\A ch \in DOMAIN chan :
             LET q == chan[ch].buf
             IN  /\ \A i \in 1..Len(q) : q[i].n > got[ch][q[i].pub]
                 /\ \A i, j \in 1..Len(q) : i < j /\ q[i].pub = q[j].pub => q[i].n < q[j].n)
    /\ [][\A ch \in DOMAIN chan : \A p \in Publishers :
             got'[ch][p] >= got[ch][p]]_vars

\* a reader has received the first event of publisher 2 and then the
\* second of publisher 1, whose first it did not get, waits in its queue
C27_Witness ==
    \E ch \in DOMAIN chan :
       /\ got[ch][2] = 1
       /\ got[ch][1] = 0
       /\ chan[ch].buf = <<Event(1, 2)>>
       /\ ch \in subs

\* C28: resume on a stored conversation that is not in one of the resumable
\* states (blocked, awaiting_info, awaiting_step_approval, awaiting_command,
\* replanning) makes no model call, leaves the store alone and returns the
\* stored conversation; on a resumable one it sets the state to executing and
\* clears awaiting_reason, its next step saves that record, and the advance
\* loop that follows executes the first step that is not done.
C28_ResumeGate ==
    [][ /\ \A id \in ClientIDs :
              (Resume(1, id) /\ Found(store, id)) =>
                  /\ store' = store
                  /\ calls' = calls
                  /\ ran' = ran
                  /\ IF Get(store, id).State \in
                            {StateBlocked, StateAwaitingInfo, StateAwaitingStepApproval,
                             StateAwaitingCommand, StateReplanning}
                     THEN /\ pc'[1] = "save_adv"
                          /\ conv'[1] = [Get(store, id) EXCEPT !.State = StateExecuting,
                                                               !.AwaitingReason = ""]
                     ELSE /\ pc'[1] = "idle"
                          /\ ret'[1].op = "Resume"
                          /\ ret'[1].err = ""
                          /\ ret'[1].conv = Get(store, id)
        /\ (pc[1] = "save_adv" /\ arg[1].op = "Resume") =>
              /\ Found(store', arg[1].id)
              /\ Get(store', arg[1].id) = cloneConversation(conv[1])
              /\ Get(store', arg[1].id).State = StateExecuting
              /\ Get(store', arg[1].id).AwaitingReason = ""
              /\ calls' = calls
              /\ pc'[1] = "adv"
              /\ arg'[1].i = 1
        /\ (pc[1] = "adv" /\ arg[1].op = "Resume" /\ arg[1].i = 1) =>
              LET left == {k \in 1..Len(conv[1].Steps) :
                              conv[1].Steps[k].Status # StepDone}
              IN  IF left = {}
                  THEN calls' = calls
                  ELSE /\ calls' > calls
                       /\ Found(store', arg[1].id) =>
                             LET after == Get(store', arg[1].id).Steps
                             IN  /\ Len(after) = Len(conv[1].Steps)
                                 /\ \A k \in 1..Len(after) :
                                       k # Min(left) => after[k] = conv[1].Steps[k]
                                 /\ pc'[1] = "adv" => arg'[1].i = Min(left) + 1
      ]_vars

\* C28 witness: resume of a blocked conversation has saved it as executing and
\* stands at the head of the advance loop, its first step done and a later
\* one still to be done.
C28_Witness ==
    /\ pc[1] = "adv"
    /\ arg[1].op = "Resume"
    /\ arg[1].i = 1
    /\ conv[1].State = StateExecuting
    /\ conv[1].AwaitingReason = ""
    /\ conv[1].Steps[1].Status = StepDone
    /\ \E k \in 1..Len(conv[1].Steps) : conv[1].Steps[k].Status # StepDone


\* the times a clock reading can take
Times == 1..(2 * (MaxCalls + MaxCmds) + 2)

\* call t has returned conversation id as completed with completed_at x
ReturnedCompleted(t, id, x) ==
    /\ ret[t].err = ""
    /\ ret[t].conv.SessionID = id
    /\ ret[t].conv.State = StateCompleted
    /\ ret[t].conv.CompletedAt = x

\* C29: completed_message and completed_at are written once: after a call has
\* returned a conversation as completed with its completed_at, no later call
\* returns that conversation with a later completed_at.
C29_CompletionWrittenOnce ==
    \A id \in {SessionIds[k] : k \in 1..MaxConvs} : \A x \in Times :
        [](ReturnedCompleted(1, id, x) =>
              [](\A y \in Times : ReturnedCompleted(1, id, y) => y = x))


\* the step-execution model calls a conversation records for step sid
execCalls(c, sid) ==
    {k \in 1..Len(c.ModelCalls) :
        /\ c.ModelCalls[k].Prompt.kind = "execute_step"
        /\ c.ModelCalls[k].Prompt.step = sid}

\* the commands a step's logs record as run
execLogs(step) == {k \in 1..Len(step.Logs) : HasPrefix(step.Logs[k], "EXEC: ")}

\* C30: a stored conversation still on its first plan version records, for
\* each of its steps, at most one step-execution model call and at most one
\* command run.
C30_OneExecutionPerStep ==
    \A id \in Stored :
        Get(store, id).PlanVersion = 1 =>
            /\ \A k \in 1..Len(Get(store, id).Steps) :
                  Cardinality(execCalls(Get(store, id), Get(store, id).Steps[k].ID)) <= 1
            /\ \A k \in 1..Len(Get(store, id).Steps) :
                  Cardinality(execLogs(Get(store, id).Steps[k])) <= 1


\* the pending fields of a step that are set
pendingFields(step) ==
    {f \in {"command", "info", "dependency"} :
        \/ f = "command" /\ step.PendingCommand # ""
        \/ f = "info" /\ step.PendingInfo # ""
        \/ f = "dependency" /\ step.PendingDependency # ""}

\* C31: in every step of every stored conversation, at most one of
\* pending_command, pending_info and pending_dependency is non-empty.
C31_OnePendingField ==
    \A id \in Stored :
        \A k \in 1..Len(Get(store, id).Steps) :
            Cardinality(pendingFields(Get(store, id).Steps[k])) <= 1


\* the command a step-execution reply asks for ("" when it asks for none)
commandOf(reply) ==
    IF HasPrefix(ToUpper(TrimSpace(reply)), "COMMAND:")
    THEN TrimSpace(SliceFrom(reply, Len("COMMAND:")))
    ELSE ""

RECURSIVE JoinLines(_)
JoinLines(ls) == IF Len(ls) = 1 THEN ls[1] ELSE ls[1] \o "\n" \o JoinLines(Tail(ls))

\* the reply cut down to its raw lines 0 through 10
UpToLine10(s) ==
    LET ls == Split(s, "\n")
    IN  IF Len(ls) <= 11 THEN s ELSE JoinLines(SubSeq(ls, 1, 11))

\* C33: the parser returns at most 11 steps, and they are the steps of the
\* reply's raw lines 0 through 10: later lines add none.
C33_AtMostElevenSteps ==
    /\ Len(planParsed.steps) <= 11
    /\ planParsed.steps = parsePlanAndCriteria(UpToLine10(planReply)).steps


\* C34: the step of the advance loop whose step-execution reply starts with
\* NEED: or DEPENDENCY: makes exactly one more model call, the propose_command
\* call, and records it as the model_calls entry after the step-execution
\* entry, in the conversation it returns and in the stored one, whether that
\* call failed, named a command or replied anything else; a discovery reply
\* that itself starts with NEED: leaves the step waiting for what the
\* step-execution reply asked.  Any other reply makes no further call.
C34_DiscoveryRecordedOnce ==
    [][ (pc[1] = "adv" /\ calls' > calls
            /\ Len(After(1).ModelCalls) > Len(conv[1].ModelCalls)) =>
        LET old == conv[1]
            new == After(1)
            n == Len(old.ModelCalls)
            r == new.ModelCalls[n + 1].Reply
            i == findStep(old, new.ModelCalls[n + 1].Prompt.step)
        IN  /\ new.ModelCalls[n + 1].Prompt.kind = "execute_step"
            /\ SubSeq(new.ModelCalls, 1, n) = old.ModelCalls
            /\ IF ~StartsWith(r, "COMMAND:")
                  /\ (StartsWith(r, "NEED:") \/ StartsWith(r, "DEPENDENCY:"))
               THEN /\ calls' = calls + 2
                    /\ Len(new.ModelCalls) = n + 2
                    /\ new.ModelCalls[n + 2].Prompt.kind = "propose_command"
                    /\ Get(store', new.SessionID).ModelCalls = new.ModelCalls
                    /\ pc'[1] = "idle"
                    /\ StartsWith(new.ModelCalls[n + 2].Reply, "NEED:") =>
                          /\ new.State = StateAwaitingInfo
                          /\ IF StartsWith(r, "NEED:")
                             THEN new.Steps[i].PendingInfo
                                      = TrimSpace(SliceFrom(TrimSpace(r), 5))
                             ELSE new.Steps[i].PendingDependency
                                      = TrimSpace(SliceFrom(TrimSpace(r), 11))
               ELSE /\ calls' = calls + 1
                    /\ Len(new.ModelCalls) = n + 1
      ]_vars

\* C34 witness: a step asked for information, the propose_command call failed,
\* and the stored conversation records the failed call after the
\* step-execution call.
C34_Witness ==
    \E id \in Stored :
        LET mc == Get(store, id).ModelCalls
        IN  /\ Get(store, id).State = StateAwaitingInfo
            /\ Len(mc) >= 2
            /\ mc[Len(mc)].Prompt.kind = "propose_command"
            /\ mc[Len(mc)].Reply = ""
            /\ mc[Len(mc) - 1].Prompt.kind = "execute_step"
            /\ StartsWith(mc[Len(mc) - 1].Reply, "NEED:")


\* C35: every stored conversation in state executing has an empty
\* awaiting_reason.
C35_ExecutingHasNoReason ==
    \A id \in Stored :
        Get(store, id).State = StateExecuting => Get(store, id).AwaitingReason = ""


\* C35 witness: resume has saved a conversation that was waiting, with a
\* reason, as executing, and its advance loop is about to run.
C35_Witness ==
    /\ pc[1] = "adv"
    /\ arg[1].op = "Resume"
    /\ arg[1].i = 1
    /\ Found(store, arg[1].id)
    /\ Get(store, arg[1].id).State = StateExecuting
    /\ Get(store, arg[1].id).AwaitingReason = ""
    /\ \E k \in 1..Len(Get(store, arg[1].id).Steps) :
          Get(store, arg[1].id).Steps[k].Status = StepBlocked


\* C36: no stored conversation is in state awaiting_step_approval or aborted,
\* and no stored step has requires_approval set.
C36_NoStepApprovalNoAbort ==
    \A id \in Stored :
        /\ Get(store, id).State \notin {StateAwaitingStepApproval, StateAborted}
        /\ \A k \in 1..Len(Get(store, id).Steps) : ~Get(store, id).Steps[k].RequiresApproval

\* C36 witness: the advance loop has come to a step of a stored plan, found
\* that it needs no approval and executed it.
C36_Witness ==
    \E id \in Stored :
        /\ Get(store, id).State = StateExecuting
        /\ pc[1] = "adv"
        /\ arg[1].i = 2
        /\ Get(store, id).Steps[1].Status = StepDone
        /\ ~Get(store, id).Steps[1].RequiresApproval


\* C37: in every stored conversation, a step that has left status pending has
\* only done steps before it.
C37_StepsInPlanOrder ==
    \A id \in Stored :
        \A k \in 1..Len(Get(store, id).Steps) :
            Get(store, id).Steps[k].Status # StepPending =>
                \A j \in 1..(k - 1) : Get(store, id).Steps[j].Status = StepDone


\* C38: a plan version is executed only once approved.  Every new plan (a new
\* conversation's, or a replan's, which raises plan_version by one) is stored
\* as awaiting_plan_approval; a stored conversation leaves
\* awaiting_plan_approval only in the save of approve_plan, or of
\* plan_and_execute for its own plan version 1, and then for executing with
\* the same plan version; and a step-execution model call is made only for a
\* conversation that is stored as executing under the plan version in hand.
C38_ExecutesOnlyApprovedPlans ==
    [][ /\ \A id \in ListIDs(store') :
              IF ~Found(store, id)
              THEN Len(Get(store', id).Steps) > 0 =>
                       /\ Get(store', id).State = StateAwaitingPlanApproval
                       /\ Get(store', id).PlanVersion = 1
              ELSE /\ Get(store', id).PlanVersion # Get(store, id).PlanVersion =>
                       /\ Get(store', id).PlanVersion = Get(store, id).PlanVersion + 1
                       /\ Get(store', id).State = StateAwaitingPlanApproval
                   /\ (Get(store, id).State = StateAwaitingPlanApproval
                         /\ Get(store', id).State # StateAwaitingPlanApproval) =>
                       /\ pc[1] = "save_adv"
                       /\ arg[1].id = id
                       /\ \/ arg[1].op = "ApprovePlan"
                          \/ arg[1].op = "PlanAndExecute" /\ Get(store, id).PlanVersion = 1
                       /\ Get(store', id).State = StateExecuting
                       /\ Get(store', id).PlanVersion = Get(store, id).PlanVersion
        /\ (pc[1] = "adv" /\ calls' > calls) =>
              /\ Found(store, conv[1].SessionID)
              /\ Get(store, conv[1].SessionID).State = StateExecuting
              /\ Get(store, conv[1].SessionID).PlanVersion = conv[1].PlanVersion
              /\ Get(store, conv[1].SessionID).Steps = conv[1].Steps
      ]_vars

\* C38 witness: a replanned conversation, approved again, has had a step of
\* its second plan version executed.
C38_Witness ==
    \E id \in Stored :
        LET mc == Get(store, id).ModelCalls
        IN  /\ Get(store, id).PlanVersion = 2
            /\ Len(mc) >= 2
            /\ mc[Len(mc)].Prompt.kind = "execute_step"
            /\ mc[Len(mc) - 1].Prompt.kind = "unblock"


\* C39: once a close of a session has returned and the store holds nothing
\* under its id, no step puts a conversation under that id again.
C39_ClosedStaysClosed ==
    [][ \A t \in Threads :
           (/\ pc[t] = "idle"
            /\ ret[t].op = "Close"
            /\ ret[t].err = ""
            /\ ~Found(store, ret[t].id)) =>
               ~Found(store', ret[t].id)
      ]_vars


\* a step-execution reply that is plain success text
PlainSuccess(reply) ==
    /\ reply # ""
    /\ \A d \in {"COMMAND:", "NEED:", "DEPENDENCY:", "BLOCKED", "ERROR"} : ~StartsWith(reply, d)

\* the call returned without error and the last model call it made was a
\* step execution answered with plain success or a verification answered with
\* PASS.  A call of the advance loop goes on only after such a reply, so all
\* its earlier model calls were answered so too.
AnsweredWell(r) ==
    /\ r.err = ""
    /\ Len(r.conv.ModelCalls) > 0
    /\ LET last == r.conv.ModelCalls[Len(r.conv.ModelCalls)]
       IN  \/ last.Prompt.kind = "execute_step" /\ PlainSuccess(last.Reply)
           \/ last.Prompt.kind = "verify" /\ StartsWith(last.Reply, "PASS")

\* the returned conversation is completed with every step done, and so stored
CompletedAllDone(r) ==
    /\ r.conv.State = StateCompleted
    /\ \A k \in 1..Len(r.conv.Steps) : r.conv.Steps[k].Status = StepDone
    /\ Found(store, r.id)
    /\ Get(store, r.id).State = StateCompleted
    /\ \A k \in 1..Len(Get(store, r.id).Steps) : Get(store, r.id).Steps[k].Status = StepDone

\* C40: an approve_plan call that has been accepted returns, and when all its
\* model calls returned and were answered with plain success (steps) and PASS
\* (verification), the conversation it returns is completed with every step
\* done.
C40_ApprovedPlanCompletes ==
    (pc[1] = "save_adv" /\ arg[1].op = "ApprovePlan") ~>
        (/\ pc[1] = "idle"
         /\ ret[1].op = "ApprovePlan"
         /\ AnsweredWell(ret[1]) => CompletedAllDone(ret[1]))

\* C40 witness: an approve_plan call has returned a two-step plan completed
\* after a run in which every step's reply was plain success.
C40_Witness ==
    /\ pc[1] = "idle"
    /\ ret[1].op = "ApprovePlan"
    /\ AnsweredWell(ret[1])
    /\ CompletedAllDone(ret[1])
    /\ Len(ret[1].conv.Steps) = 2

=============================================================================
